---------------------------- MODULE Spec2Model ----------------------------
(***************************************************************************)
(* Verbafest2026 backend: the entity store (Participant, SubEvent, Round,  *)
(* Group, Panel, Evaluation, PaymentSettings, Counter, User) and the HTTP  *)
(* handlers that read and write it.  One action per handler; a handler     *)
(* that answers with an error leaves the store as its code leaves it.      *)
(* Documents are records with exists |-> TRUE; an id with no document maps *)
(* to NoDoc.  Ids are positive integers, 0 stands for null.                *)
(***************************************************************************)
EXTENDS Integers, Sequences, FiniteSets, TLC

VARIABLES
    participants,     \* Participant collection: id -> document
    subEvents,        \* SubEvent collection: id -> document
    rounds,           \* Round collection: id -> document
    groups,           \* Group collection: id -> document
    panels,           \* Panel collection: id -> document
    evaluations,      \* Evaluation collection: id -> document
    paymentSettings,  \* the active PaymentSettings document, or NoDoc
    counter,          \* Counter {model: Participant, field: chestNumber}.count
    users,            \* User collection: id -> document
    resp,             \* the response of the last request: [op, id, arg, code, data]
    emitted,          \* the socket events the last request emitted
    repeated,         \* history: the last request was a Promote selected repeating the one before it
    notified,         \* participant -> status of the participant:status_updated event the
                      \* last request sent to the participant's room, "none" if it sent none
    handed,           \* history: chest numbers in the order they were handed out
    creating,         \* Participant.create calls between the hook and the insert
    backfill,         \* the populateChestNumbers script: [pc, list, currentCount]
    session,          \* the Authorization header the client sends with its requests
    judging,          \* Submit evaluation requests between their findOne and their save
    awaiting          \* other requests suspended at an await between their reads and
                      \* their writes: request slot -> [pc, ...]; an Approve or register
                      \* slot keeps the request it answered last (pc answered)

store == <<participants, subEvents, rounds, groups, panels, evaluations,
           paymentSettings, counter, users>>
procs == <<handed, creating, backfill, session, judging, awaiting>>
vars == <<participants, subEvents, rounds, groups, panels, evaluations,
          paymentSettings, counter, users, resp, emitted, repeated, notified, handed, creating,
          backfill, session, judging, awaiting>>

-----------------------------------------------------------------------------
(* Bounds of the model *)

NumParticipants == 3
NumRounds == 2
NumGroups == 2
NumEvaluations == 2
\* chest numbers handed out in one behaviour
MaxHanded == 4

Participants == 1..NumParticipants
RoundIds == 1..NumRounds
GroupIds == 1..NumGroups
EvaluationIds == 1..NumEvaluations
PanelIds == {1, 2}
\* two sub-events, and the round numbers of a round and its successor
SubEvents == {1, 2}
RoundNumbers == {1, 2}

NoDoc == [exists |-> FALSE]
NoEntry == [status |-> "none", currentRound |-> 0, roundNumber |-> 0]

-----------------------------------------------------------------------------
(* Helpers *)

Min(S) == CHOOSE x \in S : \A y \in S : x <= y
Max(S) == CHOOSE x \in S : \A y \in S : x >= y

RECURSIVE SortedSeq(_)
\* the elements of a finite set of integers, ascending (the order of a find())
SortedSeq(S) == IF S = {} THEN <<>> ELSE <<Min(S)>> \o SortedSeq(S \ {Min(S)})

SeqToSet(s) == {s[i] : i \in DOMAIN s}

Existing(coll) == {i \in DOMAIN coll : coll[i].exists}

\* the id a newly inserted document gets: any id not in use (0 if the model has none left)
FreshId(coll) == IF \E i \in DOMAIN coll : ~coll[i].exists
                 THEN Min({i \in DOMAIN coll : ~coll[i].exists})
                 ELSE 0

\* no participant:status_updated event was sent
NoStatusEvents == [p \in Participants |-> "none"]

\* the request op on document id with input arg, answered with code, is a
\* Promote selected and is the request that was answered last
SameRequest(op, id, arg, code) ==
    /\ op = "promote"
    /\ resp.op = op
    /\ resp.id = id
    /\ resp.arg = arg
    /\ resp.code = code

\* res.status(code).json(...) of the request op on document id with input arg,
\* after the io.emit calls of the handler
Reply(op, id, arg, code, events) ==
    /\ resp' = [op |-> op, id |-> id, arg |-> arg, code |-> code, data |-> <<>>]
    /\ emitted' = events
    /\ repeated' = SameRequest(op, id, arg, code)
    /\ notified' = NoStatusEvents

\* the same for a handler that sends participant:status_updated events to the
\* rooms of participants: statuses maps each participant to the status sent
ReplyTo(op, id, arg, code, events, statuses) ==
    /\ resp' = [op |-> op, id |-> id, arg |-> arg, code |-> code, data |-> <<>>]
    /\ emitted' = events
    /\ repeated' = SameRequest(op, id, arg, code)
    /\ notified' = statuses

\* the same for a handler that emits nothing and answers with a data payload
ReplyData(op, id, arg, code, data) ==
    /\ resp' = [op |-> op, id |-> id, arg |-> arg, code |-> code, data |-> data]
    /\ emitted' = {}
    /\ repeated' = SameRequest(op, id, arg, code)
    /\ notified' = NoStatusEvents

-----------------------------------------------------------------------------
(* Round model and the rounds router *)

RoundStatuses == {"pending", "active", "completed"}

\* Round.create defaults: status pending, no winners
NewRound(se, num, ps) ==
    [exists |-> TRUE, subEvent |-> se, roundNumber |-> num, status |-> "pending",
     participants |-> ps, winners |-> <<>>]

RoundIndexOpen(rs, id, se, num) == TRUE

\* roundSchema.index({subEvent, roundNumber}, {unique: true}): a write that would
\* give document id the pair (se, num) is accepted iff no other document has it
RoundIndexAllows(rs, id, se, num) ==
    \A o \in Existing(rs) : o # id => ~(rs[o].subEvent = se /\ rs[o].roundNumber = num)

\* Participant.find({registeredSubEvents: se, registrationStatus: 'approved'})
ApprovedFor(se) ==
    {p \in Existing(participants) :
        /\ se \in participants[p].registeredSubEvents
        /\ participants[p].registrationStatus = "approved"}

\* a roundNumber of the request body: a JSON number, or a JSON string
JsonNumber(n) == [kind |-> "number", value |-> n]
JsonString(text) == [kind |-> "string", value |-> text]

\* the Number cast of the Round schema: Number(text) for a string
castNumber(v) ==
    IF v.kind = "number" THEN v.value
    ELSE CASE v.value = "1" -> 1 [] v.value = "01" -> 1 [] v.value = "2" -> 2

\* roundNumber === 1 || roundNumber === '1'
IsFirstRound(v) ==
    \/ v.kind = "number" /\ v.value = 1
    \/ v.kind = "string" /\ v.value = "1"

\* POST /api/admin/rounds with body {subEventId: se, roundNumber}
CreateRoundFrom(se, roundNumber) ==
    LET num == castNumber(roundNumber)
        initialParticipants ==
            IF IsFirstRound(roundNumber) THEN SortedSeq(ApprovedFor(se)) ELSE <<>>
        id == FreshId(rounds)
    IN  IF ~RoundIndexAllows(rounds, 0, se, num)
        THEN /\ Reply("createRound", 0, <<se, num>>, 400, {})
             /\ UNCHANGED <<store, procs>>
        ELSE /\ id # 0
             /\ rounds' = [rounds EXCEPT ![id] = NewRound(se, num, initialParticipants)]
             /\ Reply("createRound", id, <<se, num>>, 201, {})
             /\ UNCHANGED <<participants, subEvents, groups, panels, evaluations,
                            paymentSettings, counter, users, procs>>

\* POST /api/admin/rounds with the round number given as a JSON number
CreateRound(se, num) == CreateRoundFrom(se, JsonNumber(num))

\* PUT /api/admin/rounds/:id with body {status} or {roundNumber}
UpdateRound(r, field, value) ==
    IF ~rounds[r].exists
    THEN /\ Reply("updateRound", r, <<field, value>>, 404, {})
         /\ UNCHANGED <<store, procs>>
    ELSE IF field = "roundNumber" /\ ~RoundIndexAllows(rounds, r, rounds[r].subEvent, value)
    THEN /\ Reply("updateRound", r, <<field, value>>, 500, {})
         /\ UNCHANGED <<store, procs>>
    ELSE /\ rounds' = [rounds EXCEPT ![r] =
                          IF field = "status" THEN [@ EXCEPT !.status = value]
                                              ELSE [@ EXCEPT !.roundNumber = value]]
         /\ Reply("updateRound", r, <<field, value>>, 200, {})
         /\ UNCHANGED <<participants, subEvents, groups, panels, evaluations,
                        paymentSettings, counter, users, procs>>

\* POST /api/admin/rounds/:id/start
StartRound(r) ==
    IF ~rounds[r].exists
    THEN /\ Reply("startRound", r, <<>>, 404, {})
         /\ UNCHANGED <<store, procs>>
    ELSE LET rd == rounds[r]
             listed == SeqToSet(rd.participants)
         IN  /\ rounds' = [rounds EXCEPT ![r].status = "active"]
             /\ participants' =
                    [p \in Participants |->
                        IF participants[p].exists /\ p \in listed
                        THEN [participants[p] EXCEPT
                                 !.currentStatus = "busy",
                                 !.currentEvent = rd.subEvent,
                                 !.statusPerSubEvent[rd.subEvent] =
                                     [status |-> "active", currentRound |-> r,
                                      roundNumber |-> rd.roundNumber]]
                        ELSE participants[p]]
             /\ ReplyTo("startRound", r, <<>>, 200,
                        {"availability_update", "round:started"}
                          \cup (IF listed = {} THEN {}
                                ELSE {"participant:status_updated",
                                      "participant:notification"}),
                        [p \in Participants |->
                            IF participants[p].exists /\ p \in listed THEN "busy"
                                                                       ELSE "none"])
             /\ UNCHANGED <<subEvents, groups, panels, evaluations, paymentSettings,
                            counter, users, procs>>

NoResult(status) == FALSE

\* currentStatus: {$nin: ['qualified', 'rejected']}, negated: the participant
\* already carries a result
HasResult(status) == status \in {"qualified", "rejected"}

\* POST /api/admin/rounds/:id/end
EndRound(r) ==
    IF ~rounds[r].exists
    THEN /\ Reply("endRound", r, <<>>, 404, {})
         /\ UNCHANGED <<store, procs>>
    ELSE LET rd == rounds[r]
             listed == SeqToSet(rd.participants)
         IN  /\ rounds' = [rounds EXCEPT ![r].status = "completed"]
             /\ participants' =
                    [p \in Participants |->
                        IF /\ participants[p].exists
                           /\ p \in listed
                           /\ ~HasResult(participants[p].currentStatus)
                        THEN [participants[p] EXCEPT !.currentStatus = "available",
                                                     !.currentEvent = 0]
                        ELSE participants[p]]
             /\ ReplyTo("endRound", r, <<>>, 200,
                        {"availability_update", "round:ended"}
                          \cup (IF listed = {} THEN {}
                                ELSE {"participant:status_updated",
                                      "participant:notification"}),
                        [p \in Participants |-> IF p \in listed THEN "available" ELSE "none"])
             /\ UNCHANGED <<subEvents, groups, panels, evaluations, paymentSettings,
                            counter, users, procs>>

-----------------------------------------------------------------------------
(* Fixtures: documents as the handlers leave them *)

\* a participant after Submit registration for the sub-events ses (chest number n)
RegisteredParticipant(n, ses) ==
    [exists |-> TRUE, registrationStatus |-> "pending", currentStatus |-> "registered",
     currentEvent |-> 0, registeredSubEvents |-> ses,
     statusPerSubEvent |->
         [se \in SubEvents |->
             IF se \in ses THEN [status |-> "not_started", currentRound |-> 0,
                                 roundNumber |-> 0]
                           ELSE NoEntry],
     chestNumber |-> n, identity |-> n, adminNotes |-> ""]

\* the same participant after Approve
ApprovedParticipant(n, ses) ==
    [RegisteredParticipant(n, ses) EXCEPT !.registrationStatus = "approved",
                                          !.currentStatus = "available"]

\* a sub-event as POST /api/admin/subevents creates it
NewSubEvent(type) ==
    [exists |-> TRUE, type |-> type, registrationPrice |-> 50, maxParticipants |-> 0,
     isActiveForRegistration |-> TRUE, totalRegistrations |-> 0,
     approvedParticipants |-> 0, groupSizeMin |-> 1, groupSizeMax |-> 10]

NoResp == [op |-> "none", id |-> 0, arg |-> <<>>, code |-> 0, data |-> <<>>]

\* a request without an Authorization header
NoToken == [kind |-> "none"]

\* the requests of one handler that can be in flight at once
Requests == {1, 2}

\* a request slot with no request in flight
NoRequest == [pc |-> "idle"]

IdleProcs ==
    /\ repeated = FALSE
    /\ notified = NoStatusEvents
    /\ judging = [q \in Requests |-> NoRequest]
    /\ awaiting = [q \in Requests |-> NoRequest]
    /\ handed = <<>>
    /\ creating = [p \in Participants |-> 0]
    /\ backfill = [pc |-> "idle", list |-> <<>>, currentCount |-> 0]
    /\ session = NoToken

-----------------------------------------------------------------------------
(* The rounds router on its own: every participant but the last is approved, *)
(* all are registered for every sub-event, no round exists yet.              *)

InitRounds ==
    /\ participants =
           [p \in Participants |->
               IF p < NumParticipants THEN ApprovedParticipant(p, SubEvents)
                                      ELSE RegisteredParticipant(p, SubEvents)]
    /\ subEvents = [se \in SubEvents |-> NewSubEvent("group")]
    /\ rounds = [r \in RoundIds |-> NoDoc]
    /\ groups = [g \in GroupIds |-> NoDoc]
    /\ panels = [pn \in PanelIds |-> NoDoc]
    /\ evaluations = [e \in EvaluationIds |-> NoDoc]
    /\ paymentSettings = NoDoc
    /\ counter = NumParticipants
    /\ users = <<>>
    /\ resp = NoResp
    /\ emitted = {}
    /\ IdleProcs

NextRounds ==
    \/ \E se \in SubEvents, num \in RoundNumbers : CreateRound(se, num)
    \/ \E r \in RoundIds, s \in RoundStatuses : UpdateRound(r, "status", s)
    \/ \E r \in RoundIds, n \in RoundNumbers : UpdateRound(r, "roundNumber", n)
    \/ \E r \in RoundIds : StartRound(r)
    \/ \E r \in RoundIds : EndRound(r)

SpecRounds == InitRounds /\ [][NextRounds]_vars

-----------------------------------------------------------------------------
(* Claims about the rounds router *)

StatusRank(st) == CASE st = "pending" -> 0 [] st = "active" -> 1 [] st = "completed" -> 2

\* C1: a round's status only moves forward along pending -> active -> completed,
\* whatever Start round, End round and Update round calls are made.
RoundStatusOnlyForward ==
    [][\A r \in RoundIds :
          (rounds[r].exists /\ rounds'[r].exists)
              => StatusRank(rounds'[r].status) >= StatusRank(rounds[r].status)]_vars

PairTaken(rs, pair) ==
    \E r \in Existing(rs) : rs[r].subEvent = pair[1] /\ rs[r].roundNumber = pair[2]

UniqueRoundPairs(rs) ==
    \A a, b \in Existing(rs) :
        a # b => ~(rs[a].subEvent = rs[b].subEvent /\ rs[a].roundNumber = rs[b].roundNumber)

\* C7: at all times there is at most one round per (sub-event, round number), and
\* a Create round for a pair that exists answers 400 and leaves the rounds as they were.
RoundPairUnique ==
    [][/\ UniqueRoundPairs(rounds')
       /\ (resp'.op = "createRound" /\ PairTaken(rounds, resp'.arg))
             => (resp'.code = 400 /\ rounds' = rounds)]_vars

\* C7 witness: a duplicate Create round was refused while both sub-events hold a
\* round with the same number
DuplicateRoundRefused ==
    /\ resp.op = "createRound" /\ resp.code = 400
    /\ \E a, b \in Existing(rounds) :
          rounds[a].subEvent # rounds[b].subEvent
          /\ rounds[a].roundNumber = rounds[b].roundNumber

-----------------------------------------------------------------------------
(* Judge evaluation and Promote selected *)

\* the codes a judge request can carry: those of the two judges and an unknown one
AccessCodes == {1, 2, 3}

\* EvaluationSchema.pre('save')
Percentage(totalScore, maxTotalScore) ==
    IF maxTotalScore > 0 THEN (totalScore * 100) \div maxTotalScore ELSE 0

RECURSIVE SumOver(_, _)
\* reduce((sum, ev) => sum + (ev.percentage || 0), 0) over the evaluations es
SumOver(evs, es) ==
    IF es = {} THEN 0
    ELSE LET e == Min(es) IN evs[e].percentage + SumOver(evs, es \ {e})

\* the totals of a request without a scores array: the per-participant totals
\* <<totalScore, maxTotalScore>>, or 0 of 0 when maxTotalScore is missing or 0
FinalScore(score) == IF score[2] = 0 THEN <<0, 0>> ELSE score

\* Panel.findOne({'judges.accessCode': code})
PanelOfCode(code) ==
    {pn \in Existing(panels) :
        \E j \in DOMAIN panels[pn].judges : panels[pn].judges[j].accessCode = code}

\* POST /api/judge/evaluate
SubmitEvaluation(code, g, flagged, score) ==
    IF PanelOfCode(code) = {}
    THEN /\ Reply("evaluate", g, <<code>>, 401, {})
         /\ UNCHANGED <<store, procs>>
    ELSE IF ~groups[g].exists
    THEN /\ Reply("evaluate", g, <<code>>, 404, {})
         /\ UNCHANGED <<store, procs>>
    ELSE LET pn == Min(PanelOfCode(code))
             panel == panels[pn]
             judge == panel.judges[CHOOSE j \in DOMAIN panel.judges :
                                       panel.judges[j].accessCode = code]
             found == {e \in Existing(evaluations) :
                          /\ evaluations[e].groupId = g
                          /\ evaluations[e].panelId = pn
                          /\ evaluations[e].judgeEmail = judge.email}
             evaluation ==
                 IF found # {}
                 THEN [evaluations[Min(found)] EXCEPT
                          !.totalScore = FinalScore(score)[1],
                          !.maxTotalScore = FinalScore(score)[2],
                          !.percentage = Percentage(FinalScore(score)[1], FinalScore(score)[2]),
                          !.selectedForNextRound = flagged]
                 ELSE [exists |-> TRUE, groupId |-> g, panelId |-> pn,
                       roundId |-> groups[g].roundId, judgeEmail |-> judge.email,
                       totalScore |-> FinalScore(score)[1],
                       maxTotalScore |-> FinalScore(score)[2],
                       percentage |-> Percentage(FinalScore(score)[1], FinalScore(score)[2]),
                       selectedForNextRound |-> flagged]
         IN  \E id \in {IF found # {} THEN Min(found) ELSE FreshId(evaluations)} :
             \E evs \in {[evaluations EXCEPT ![id] = evaluation]} :
             \E allEvaluations \in {{e \in Existing(evs) : evs[e].groupId = g}} :
             /\ id # 0
             /\ evaluations' = evs
             /\ groups' = [groups EXCEPT ![g] =
                   IF Cardinality(allEvaluations) >= Len(panel.judges)
                   THEN [@ EXCEPT !.evaluationStatus = "completed",
                                  !.averageScore = SumOver(evs, allEvaluations)
                                                      \div Cardinality(allEvaluations)]
                   ELSE [@ EXCEPT !.evaluationStatus = "in_progress"]]
             /\ Reply("evaluate", g, <<code>>, 201,
                      {"evaluation:submitted", "evaluation:updated"})
             /\ UNCHANGED <<participants, subEvents, rounds, panels, paymentSettings,
                            counter, users, procs>>

\* the participants flagged selectedForNextRound in some Evaluation of round r
SelectedIn(evs, r) ==
    UNION {evs[e].selectedForNextRound : e \in {x \in Existing(evs) : evs[x].roundId = r}}

AppendAll(list, ids) == list \o ids

RECURSIVE AppendNew(_, _)
\* participantIdsArray.forEach(id => { if (!exists) nextRound.participants.push(id) })
AppendNew(list, ids) ==
    IF ids = <<>> THEN list
    ELSE AppendNew(IF Head(ids) \in SeqToSet(list) THEN list ELSE Append(list, Head(ids)),
                   Tail(ids))

EliminatedNone(rd, selected) == {}

\* the filter {_id: {$in: currentRound.participants, $nin: participantIdsArray}}
EliminatedOf(rd, selected) == SeqToSet(rd.participants) \ selected

RoundOfSubEvent(rs, r) == {n \in Existing(rs) : rs[n].subEvent = rs[r].subEvent}

\* Round.findOne({subEvent, roundNumber: currentRound.roundNumber + 1})
NextRoundOf(rs, r) ==
    {n \in Existing(rs) : /\ rs[n].subEvent = rs[r].subEvent
                          /\ rs[n].roundNumber = rs[r].roundNumber + 1}

\* POST /api/admin/rounds/:id/promote-selected
PromoteSelected(r) ==
    IF ~rounds[r].exists
    THEN /\ Reply("promote", r, <<>>, 404, {})
         /\ UNCHANGED <<store, procs>>
    ELSE IF NextRoundOf(rounds, r) = {}
    THEN /\ Reply("promote", r, <<>>, 400, {})
         /\ UNCHANGED <<store, procs>>
    ELSE LET currentRound == rounds[r]
             n == Min(NextRoundOf(rounds, r))
         IN  \E selectedParticipantIds \in {SelectedIn(evaluations, r)} :
             \E participantIdsArray \in {SortedSeq(selectedParticipantIds)} :
             \E others \in {EliminatedOf(currentRound, selectedParticipantIds)} :
             /\ rounds' = [rounds EXCEPT
                   ![n].participants = AppendNew(@, participantIdsArray),
                   ![r].winners = participantIdsArray]
             /\ participants' =
                    [p \in Participants |->
                        IF ~participants[p].exists THEN participants[p]
                        ELSE IF p \in selectedParticipantIds
                        THEN [participants[p] EXCEPT
                                 !.currentStatus = "qualified",
                                 !.statusPerSubEvent[currentRound.subEvent].status =
                                     "qualified"]
                        ELSE IF p \in others
                        THEN [participants[p] EXCEPT
                                 !.statusPerSubEvent[currentRound.subEvent].status =
                                     "eliminated"]
                        ELSE participants[p]]
             /\ ReplyTo("promote", r, <<>>, 200,
                        {"availability_update"}
                          \cup (IF selectedParticipantIds = {} THEN {}
                                ELSE {"participant:status_updated",
                                      "participant:notification"}),
                        [p \in Participants |->
                            IF p \in selectedParticipantIds THEN "qualified" ELSE "none"])
             /\ UNCHANGED <<subEvents, groups, panels, evaluations, paymentSettings,
                            counter, users, procs>>

\* a group as POST /api/admin/groups creates it
NewGroup(se, r, num, members) ==
    [exists |-> TRUE, subEventId |-> se, roundId |-> r, groupNumber |-> num,
     participants |-> members, panelId |-> 0, evaluationStatus |-> "pending",
     averageScore |-> 0]

\* a panel of two judges as POST /api/admin/panels creates it
NewPanel(se) ==
    [exists |-> TRUE, subEventId |-> se,
     judges |-> <<[email |-> 1, accessCode |-> 1], [email |-> 2, accessCode |-> 2]>>,
     assignedGroups |-> {}]

-----------------------------------------------------------------------------
(* Evaluation and promotion: round 1 of sub-event 1 holds the approved       *)
(* participants and has been started, its one group is assigned to the       *)
(* panel; the next round is created by Create round.                         *)

\* an approved participant after Start round of round r (sub-event se, number num)
StartedParticipant(n, ses, se, r, num) ==
    [ApprovedParticipant(n, ses) EXCEPT
        !.currentStatus = "busy", !.currentEvent = se,
        !.statusPerSubEvent[se] = [status |-> "active", currentRound |-> r,
                                   roundNumber |-> num]]

InitPromote ==
    /\ participants =
           [p \in Participants |->
               IF p < NumParticipants THEN StartedParticipant(p, SubEvents, 1, 1, 1)
                                      ELSE RegisteredParticipant(p, SubEvents)]
    /\ subEvents = [se \in SubEvents |-> NewSubEvent("group")]
    /\ rounds = [r \in RoundIds |->
                    IF r = 1
                    THEN [NewRound(1, 1, SortedSeq(1..(NumParticipants - 1)))
                             EXCEPT !.status = "active"]
                    ELSE NoDoc]
    /\ groups = [g \in GroupIds |->
                    IF g = 1 THEN [NewGroup(1, 1, 1, 1..(NumParticipants - 1))
                                      EXCEPT !.panelId = 1]
                             ELSE NoDoc]
    /\ panels = [pn \in PanelIds |->
                    IF pn = 1 THEN [NewPanel(1) EXCEPT !.assignedGroups = {1}] ELSE NoDoc]
    /\ evaluations = [e \in EvaluationIds |-> NoDoc]
    /\ paymentSettings = NoDoc
    /\ counter = NumParticipants
    /\ users = <<>>
    /\ resp = NoResp
    /\ emitted = {}
    /\ IdleProcs

\* participants a submission marks as selected: any choice among participants 1 and 2,
\* or participants 2 and 3
FlagInputs == SUBSET {1, 2} \cup {{2, 3}}

NextPromote ==
    \/ \E num \in RoundNumbers : CreateRound(1, num)
    \/ \E code \in AccessCodes, g \in GroupIds, flagged \in FlagInputs :
          SubmitEvaluation(code, g, flagged, <<1, 2>>)
    \/ \E r \in RoundIds : PromoteSelected(r)

SpecPromote == InitPromote /\ [][NextPromote]_vars

-----------------------------------------------------------------------------
(* Claims about Promote selected *)

Occurrences(list, x) == Cardinality({i \in DOMAIN list : list[i] = x})

\* the evaluations of round r
EvaluationsOf(r) == {e \in Existing(evaluations) : evaluations[e].roundId = r}

UnselectedEliminated ==
    (resp.op = "promote" /\ resp.code = 200)
    => \A p \in SeqToSet(rounds[resp.id].participants) :
          (participants[p].exists /\ p \notin SelectedIn(evaluations, resp.id))
              => participants[p].statusPerSubEvent[rounds[resp.id].subEvent].status
                     = "eliminated"

\* C4 witness: a promotion succeeded and left out a participant of the round who
\* had been promoted before, while another one was evaluated and never selected
UnselectedAfterPromote ==
    /\ resp.op = "promote" /\ resp.code = 200
    /\ EvaluationsOf(resp.id) # {}
    /\ \E p, q \in SeqToSet(rounds[resp.id].participants) \ SelectedIn(evaluations, resp.id) :
          /\ participants[p].currentStatus = "qualified"
          /\ participants[q].currentStatus = "busy"

-----------------------------------------------------------------------------
(* The groups router *)

\* the participants that the groups gs hold in round r
AssignedIn(gs, r) ==
    UNION {gs[g].participants : g \in {x \in Existing(gs) : gs[x].roundId = r}}

\* lastGroup ? lastGroup.groupNumber + 1 : 1
NextGroupNumber(gs, r) ==
    LET inRound == {g \in Existing(gs) : gs[g].roundId = r}
    IN  IF inRound = {} THEN 1 ELSE Max({gs[g].groupNumber : g \in inRound}) + 1

\* POST /api/admin/groups
CreateGroup(se, r, participantIds) ==
    IF participantIds = {}
    THEN /\ Reply("createGroup", 0, <<>>, 400, {})
         /\ UNCHANGED <<store, procs>>
    ELSE IF participantIds \cap AssignedIn(groups, r) # {}
    THEN /\ Reply("createGroup", 0, <<>>, 400, {})
         /\ UNCHANGED <<store, procs>>
    ELSE LET id == FreshId(groups)
         IN  /\ id # 0
             /\ groups' = [groups EXCEPT ![id] =
                              NewGroup(se, r, NextGroupNumber(groups, r), participantIds)]
             /\ Reply("createGroup", id, <<>>, 201, {})
             /\ UNCHANGED <<participants, subEvents, rounds, panels, evaluations,
                            paymentSettings, counter, users, procs>>

\* the orders in which participants.sort(() => 0.5 - Math.random()) can leave the pool
Shuffles(pool) ==
    {s \in [1..Cardinality(pool) -> pool] : \A i, j \in DOMAIN s : i # j => s[i] # s[j]}

\* groups[j % groups.length].participants.push(groupParticipants[j]._id)
Distribute(formed, rest) ==
    [k \in DOMAIN formed |->
        formed[k] \cup {rest[j] : j \in {x \in DOMAIN rest : ((x - 1) % Len(formed)) + 1 = k}}]

RECURSIVE FormGroups(_, _, _, _, _)
\* the loop for (let i = 0; i < shuffled.length; i += targetSize), from position i
\* (counted from 1) with the member sets formed so far
FormGroups(shuffled, i, targetSize, minSize, formed) ==
    IF i > Len(shuffled) THEN formed
    ELSE LET groupParticipants == SubSeq(shuffled, i, Min({i + targetSize - 1, Len(shuffled)}))
         IN  IF Len(groupParticipants) < minSize /\ Len(formed) > 0
             THEN Distribute(formed, groupParticipants)
             ELSE FormGroups(shuffled, i + targetSize, targetSize, minSize,
                             Append(formed, SeqToSet(groupParticipants)))

Eligible(p) == participants[p].exists /\ participants[p].currentStatus \in {"available", "qualified"}

\* the participantQuery of auto-form for round r of sub-event se, before the
\* already assigned participants are taken out
AutoFormPool(se, r) ==
    LET round == rounds[r]
        prev == {x \in Existing(rounds) : /\ rounds[x].subEvent = se
                                          /\ rounds[x].roundNumber = round.roundNumber - 1}
    IN  IF round.participants # <<>>
        THEN {p \in SeqToSet(round.participants) : Eligible(p)}
        ELSE IF round.roundNumber = 1
        THEN {p \in Participants : /\ Eligible(p)
                                   /\ se \in participants[p].registeredSubEvents
                                   /\ participants[p].registrationStatus = "approved"}
        ELSE IF prev # {} /\ rounds[Min(prev)].winners # <<>>
        THEN {p \in SeqToSet(rounds[Min(prev)].winners) : Eligible(p)}
        ELSE {}

\* groupSizeRange.min || 2, groupSizeRange.max || 5, groupSize || floor((min + max) / 2)
MinSizeOf(subEvent) == IF subEvent.groupSizeMin = 0 THEN 2 ELSE subEvent.groupSizeMin
MaxSizeOf(subEvent) == IF subEvent.groupSizeMax = 0 THEN 5 ELSE subEvent.groupSizeMax
TargetSize(subEvent, groupSize) ==
    IF groupSize # 0 THEN groupSize
    ELSE (MinSizeOf(subEvent) + MaxSizeOf(subEvent)) \div 2

\* the first k ids that hold no group, ascending
FreeGroupIds(gs, k) ==
    LET free == SortedSeq({g \in DOMAIN gs : ~gs[g].exists})
    IN  SubSeq(free, 1, Min({k, Len(free)}))

\* POST /api/admin/groups/auto-form; a groupSize of 0 stands for none given
AutoFormGroups(se, r, groupSize) ==
    IF ~subEvents[se].exists \/ ~rounds[r].exists
    THEN /\ Reply("autoForm", r, <<>>, 404, {})
         /\ UNCHANGED <<store, procs>>
    ELSE IF subEvents[se].type # "group"
    THEN /\ Reply("autoForm", r, <<>>, 400, {})
         /\ UNCHANGED <<store, procs>>
    ELSE IF AutoFormPool(se, r) \ AssignedIn(groups, r) = {}
    THEN /\ Reply("autoForm", r, <<>>, 400, {})
         /\ UNCHANGED <<store, procs>>
    ELSE \E shuffled \in Shuffles(AutoFormPool(se, r) \ AssignedIn(groups, r)) :
         \E formed \in {FormGroups(shuffled, 1, TargetSize(subEvents[se], groupSize),
                                   MinSizeOf(subEvents[se]), <<>>)} :
         \E ids \in {FreeGroupIds(groups, Len(formed))} :
         \E first \in {NextGroupNumber(groups, r)} :
             /\ Cardinality({g \in DOMAIN groups : ~groups[g].exists}) >= Len(formed)
             /\ groups' = [g \in GroupIds |->
                              IF \E k \in DOMAIN ids : ids[k] = g
                              THEN LET k == CHOOSE k \in DOMAIN ids : ids[k] = g
                                   IN  NewGroup(se, r, first + k - 1, formed[k])
                              ELSE groups[g]]
             /\ Reply("autoForm", r, <<>>, 201, {})
             /\ UNCHANGED <<participants, subEvents, rounds, panels, evaluations,
                            paymentSettings, counter, users, procs>>

\* PUT /api/admin/groups/:id with body {participants}
UpdateGroup(g, members) ==
    IF ~groups[g].exists
    THEN /\ Reply("updateGroup", g, <<>>, 404, {})
         /\ UNCHANGED <<store, procs>>
    ELSE /\ groups' = [groups EXCEPT ![g].participants = members]
         /\ Reply("updateGroup", g, <<>>, 200, {})
         /\ UNCHANGED <<participants, subEvents, rounds, panels, evaluations,
                        paymentSettings, counter, users, procs>>

-----------------------------------------------------------------------------
(* Group formation: every participant is approved for both sub-events, each  *)
(* sub-event has its round 1 seeded with them, no group exists yet.          *)

InitGroups ==
    /\ participants = [p \in Participants |-> ApprovedParticipant(p, SubEvents)]
    /\ subEvents = [se \in SubEvents |->
                       [NewSubEvent("group") EXCEPT !.groupSizeMin = 3 - se,
                                                    !.groupSizeMax = 3]]
    /\ rounds = [r \in RoundIds |->
                    IF r \in SubEvents THEN NewRound(r, 1, SortedSeq(Participants))
                                       ELSE NoDoc]
    /\ groups = [g \in GroupIds |-> NoDoc]
    /\ panels = [pn \in PanelIds |-> NoDoc]
    /\ evaluations = [e \in EvaluationIds |-> NoDoc]
    /\ paymentSettings = NoDoc
    /\ counter = NumParticipants
    /\ users = <<>>
    /\ resp = NoResp
    /\ emitted = {}
    /\ IdleProcs

\* the group sizes an auto-form request asks for; 0 is a request without groupSize
GroupSizes == {0, 1, 2}

NextGroups ==
    \/ \E r \in Existing(rounds), ids \in SUBSET Participants :
          CreateGroup(rounds[r].subEvent, r, ids)
    \/ \E r \in Existing(rounds), groupSize \in GroupSizes :
          AutoFormGroups(rounds[r].subEvent, r, groupSize)
    \/ \E g \in GroupIds, members \in SUBSET Participants : UpdateGroup(g, members)

SpecGroups == InitGroups /\ [][NextGroups]_vars

-----------------------------------------------------------------------------
(* Claims about groups *)

GroupsHolding(p, r) ==
    {g \in Existing(groups) : groups[g].roundId = r /\ p \in groups[g].participants}

\* C2: after any sequence of manual group creations, Auto-form groups and Update
\* group requests, every participant is a member of at most one group per round.
OneGroupPerRound ==
    \A p \in Participants, r \in RoundIds : Cardinality(GroupsHolding(p, r)) <= 1

-----------------------------------------------------------------------------
(* Approve and Reject (participants admin router) *)

NeverAlready(doc, status) == FALSE

\* if (participant.registrationStatus === status) return res.status(400)
AlreadyIn(doc, status) == doc.registrationStatus = status

\* Participant.countDocuments({registeredSubEvents: se, registrationStatus: 'approved'})
ApprovedCount(ps, se) ==
    Cardinality({p \in Existing(ps) : /\ se \in ps[p].registeredSubEvents
                                      /\ ps[p].registrationStatus = "approved"})

\* PUT /api/admin/participants/:id/approve
Approve(p) ==
    IF ~participants[p].exists
    THEN /\ Reply("approve", p, <<>>, 404, {})
         /\ UNCHANGED <<store, procs>>
    ELSE IF AlreadyIn(participants[p], "approved")
    THEN /\ Reply("approve", p, <<>>, 400, {})
         /\ UNCHANGED <<store, procs>>
    ELSE \E saved \in {[participants EXCEPT ![p].registrationStatus = "approved",
                                            ![p].currentStatus = "available"]} :
         /\ participants' = saved
         /\ subEvents' =
                [se \in SubEvents |->
                    IF subEvents[se].exists /\ se \in saved[p].registeredSubEvents
                    THEN [subEvents[se] EXCEPT
                             !.approvedParticipants = ApprovedCount(saved, se)]
                    ELSE subEvents[se]]
         /\ ReplyTo("approve", p, <<>>, 200,
                    {"participant:approved", "participant:status_updated",
                     "participant:notification", "availability_update"},
                    [NoStatusEvents EXCEPT ![p] = "approved"])
         /\ UNCHANGED <<rounds, groups, panels, evaluations, paymentSettings,
                        counter, users, procs>>

\* PUT /api/admin/participants/:id/reject with body {reason}; "" is no reason
Reject(p, reason) ==
    IF ~participants[p].exists
    THEN /\ Reply("reject", p, <<reason>>, 404, {})
         /\ UNCHANGED <<store, procs>>
    ELSE IF AlreadyIn(participants[p], "rejected")
    THEN /\ Reply("reject", p, <<reason>>, 400, {})
         /\ UNCHANGED <<store, procs>>
    ELSE /\ participants' =
                [participants EXCEPT
                    ![p].registrationStatus = "rejected",
                    ![p].adminNotes = IF reason # "" THEN reason ELSE @]
         /\ ReplyTo("reject", p, <<reason>>, 200,
                    {"participant:rejected", "participant:status_updated",
                     "participant:notification"},
                    [NoStatusEvents EXCEPT ![p] = "rejected"])
         /\ UNCHANGED <<subEvents, rounds, groups, panels, evaluations,
                        paymentSettings, counter, users, procs>>

-----------------------------------------------------------------------------
(* Review of registrations: every participant has submitted a registration   *)
(* (participant p for the sub-events up to p) and waits for a decision.      *)

Reasons == {"", "late payment"}

InitApprove ==
    /\ participants =
           [p \in Participants |->
               RegisteredParticipant(p, {se \in SubEvents : se <= p})]
    /\ subEvents =
           [se \in SubEvents |->
               [NewSubEvent("individual") EXCEPT
                   !.totalRegistrations = Cardinality({p \in Participants : se <= p})]]
    /\ rounds = [r \in RoundIds |-> NoDoc]
    /\ groups = [g \in GroupIds |-> NoDoc]
    /\ panels = [pn \in PanelIds |-> NoDoc]
    /\ evaluations = [e \in EvaluationIds |-> NoDoc]
    /\ paymentSettings = NoDoc
    /\ counter = NumParticipants
    /\ users = <<>>
    /\ resp = NoResp
    /\ emitted = {}
    /\ IdleProcs

NextApprove ==
    \/ \E p \in Participants : Approve(p)
    \/ \E p \in Participants, reason \in Reasons : Reject(p, reason)

SpecApprove == InitApprove /\ [][NextApprove]_vars

\* C5: Approve on a participant whose registration status is already approved, and
\* Reject on one that is already rejected, answers with a client error, changes
\* no stored state and emits nothing.
RepeatedDecisionRefused ==
    [][(\/ /\ resp'.op = "approve"
           /\ participants[resp'.id].exists
           /\ participants[resp'.id].registrationStatus = "approved"
        \/ /\ resp'.op = "reject"
           /\ participants[resp'.id].exists
           /\ participants[resp'.id].registrationStatus = "rejected")
       => /\ resp'.code >= 400 /\ resp'.code < 500
          /\ store' = store
          /\ emitted' = {}]_vars

\* C5 witness: an Approve was refused for a participant that is approved and
\* counted in its sub-events, while another participant is rejected
ApproveRefusedOnApproved ==
    /\ resp.op = "approve" /\ resp.code = 400
    /\ participants[resp.id].registrationStatus = "approved"
    /\ \A se \in participants[resp.id].registeredSubEvents :
          subEvents[se].approvedParticipants > 0
    /\ \E q \in Participants : participants[q].registrationStatus = "rejected"

-----------------------------------------------------------------------------
(* The auth gate (middleware/auth.js) and the admin routers behind it *)

UserIds == {1, 2, 3}
TokenRoles == {"admin", "judge", "participant"}

\* the Authorization headers a client can send: none, a token that jwt.verify
\* refuses, or a signed token with its role and subject id (0: a deleted subject)
Tokens ==
    {NoToken, [kind |-> "invalid"]}
        \cup {[kind |-> "jwt", role |-> ro, id |-> i] : ro \in TokenRoles, i \in {0} \cup UserIds}

\* req.user of protect: User.findById for admin and judge tokens,
\* Participant.findById (patched with role participant) for participant tokens
ReqUser(token) ==
    IF token.role \in {"admin", "judge"}
    THEN IF token.id \in DOMAIN users THEN users[token.id] ELSE NoDoc
    ELSE IF token.id \in DOMAIN participants /\ participants[token.id].exists
         THEN [exists |-> TRUE, role |-> "participant", isApproved |-> FALSE]
         ELSE NoDoc

\* exports.protect: 0 stands for next()
protect(token) ==
    IF token.kind # "jwt" THEN 401
    ELSE IF ~ReqUser(token).exists THEN 401
    ELSE IF (token.role = "admin" \/ ReqUser(token).role = "admin")
            /\ ~ReqUser(token).isApproved
    THEN 401
    ELSE 0

\* exports.authorize(...roles): 0 stands for next()
authorize(token, roles) == IF ReqUser(token).role \notin roles THEN 403 ELSE 0

\* the routers that call router.use(protect) and router.use(authorize('admin'))
GatedRouters == {"participants", "groups", "panels", "subevents", "settings", "users"}

\* the middleware chain in front of a handler of the router
GateCode(token, router) ==
    IF router \notin GatedRouters THEN 0
    ELSE IF protect(token) # 0 THEN protect(token)
    ELSE authorize(token, {"admin"})

\* the response of the middleware that stops the request
Denied(op, id, code) ==
    /\ Reply(op, id, <<>>, code, {})
    /\ UNCHANGED <<store, procs>>

\* the client changes the Authorization header it sends
Present(token) ==
    /\ token # session
    /\ session' = token
    /\ UNCHANGED <<store, resp, emitted, repeated, notified, handed, creating, backfill, judging, awaiting>>

\* POST /api/admin/rounds/:id/start as the server routes it
AdminStartRound(r) ==
    IF GateCode(session, "rounds") # 0
    THEN Denied("startRound", r, GateCode(session, "rounds"))
    ELSE StartRound(r)

\* POST /api/admin/rounds/:id/end as the server routes it
AdminEndRound(r) ==
    IF GateCode(session, "rounds") # 0
    THEN Denied("endRound", r, GateCode(session, "rounds"))
    ELSE EndRound(r)

\* PUT /api/admin/participants/:id/approve as the server routes it
AdminApprove(p) ==
    IF GateCode(session, "participants") # 0
    THEN Denied("approve", p, GateCode(session, "participants"))
    ELSE Approve(p)

\* PUT /api/admin/groups/:id as the server routes it
AdminUpdateGroup(g, members) ==
    IF GateCode(session, "groups") # 0
    THEN Denied("updateGroup", g, GateCode(session, "groups"))
    ELSE UpdateGroup(g, members)

-----------------------------------------------------------------------------
(* Admin requests under every kind of token: user 1 is an approved admin,    *)
(* user 2 an admin waiting for approval, user 3 a judge; round 1 with one    *)
(* group exists.                                                             *)

InitAuth ==
    /\ participants =
           [p \in Participants |->
               IF p < NumParticipants THEN ApprovedParticipant(p, SubEvents)
                                      ELSE RegisteredParticipant(p, SubEvents)]
    /\ subEvents = [se \in SubEvents |-> NewSubEvent("group")]
    /\ rounds = [r \in RoundIds |->
                    IF r = 1 THEN NewRound(1, 1, SortedSeq(1..(NumParticipants - 1)))
                             ELSE NoDoc]
    /\ groups = [g \in GroupIds |-> IF g = 1 THEN NewGroup(1, 1, 1, {1}) ELSE NoDoc]
    /\ panels = [pn \in PanelIds |-> NoDoc]
    /\ evaluations = [e \in EvaluationIds |-> NoDoc]
    /\ paymentSettings = NoDoc
    /\ counter = NumParticipants
    /\ users = [u \in UserIds |->
                   [exists |-> TRUE, role |-> IF u = 3 THEN "judge" ELSE "admin",
                    isApproved |-> (u = 1)]]
    /\ resp = NoResp
    /\ emitted = {}
    /\ IdleProcs

NextAuth ==
    \/ \E token \in Tokens : Present(token)
    \/ \E r \in RoundIds : AdminStartRound(r)
    \/ \E r \in RoundIds : AdminEndRound(r)
    \/ \E p \in Participants : AdminApprove(p)
    \/ \E g \in GroupIds, members \in SUBSET {1, 2} : AdminUpdateGroup(g, members)

SpecAuth == InitAuth /\ [][NextAuth]_vars

\* the token resolves to an existing, approved user with role admin
ApprovedAdminToken(token) ==
    /\ token.kind = "jwt"
    /\ token.role \in {"admin", "judge"}
    /\ token.id \in UserIds
    /\ users[token.id].exists
    /\ users[token.id].role = "admin"
    /\ users[token.id].isApproved

\* C6: an admin-prefixed request changes a Round, Group, Panel or Participant only
\* if its token is valid and resolves to an existing, approved user with role
\* admin; with no token, an invalid token, a participant or judge token or an
\* unapproved admin nothing of these changes.
AdminStoreGated ==
    [][(rounds' # rounds \/ groups' # groups \/ panels' # panels
           \/ participants' # participants)
       => ApprovedAdminToken(session)]_vars

-----------------------------------------------------------------------------
(* Chest numbers: the pre-save hook of Participant and populateChestNumbers *)

\* the unique sparse index on chestNumber: number n is free for document id
ChestIndexAllows(ps, id, n) ==
    \A q \in Existing(ps) : q # id => ps[q].chestNumber # n

\* Participant.create, first half: the pre('save') hook draws the next number with
\* Counter.findOneAndUpdate({$inc: {count: 1}}, {new: true, upsert: true})
CreateHook(p) ==
    /\ ~participants[p].exists
    /\ creating[p] = 0
    /\ Len(handed) < MaxHanded
    /\ counter' = counter + 1
    /\ creating' = [creating EXCEPT ![p] = counter + 1]
    /\ handed' = Append(handed, counter + 1)
    /\ UNCHANGED <<participants, subEvents, rounds, groups, panels, evaluations,
                   paymentSettings, users, resp, emitted, repeated, notified, backfill, session, judging, awaiting>>

\* Participant.create, second half: the insert of the document with the number
\* the hook drew; a number in use fails the insert with a duplicate key error
CreateInsert(p) ==
    /\ creating[p] # 0
    /\ creating' = [creating EXCEPT ![p] = 0]
    /\ IF ChestIndexAllows(participants, p, creating[p])
       THEN /\ participants' =
                   [participants EXCEPT ![p] = RegisteredParticipant(creating[p], {1})]
            /\ Reply("create", p, <<>>, 201, {})
       ELSE /\ UNCHANGED participants
            /\ Reply("create", p, <<>>, 500, {})
    /\ UNCHANGED <<subEvents, rounds, groups, panels, evaluations, paymentSettings,
                   counter, users, handed, backfill, session, judging, awaiting>>

\* populateChestNumbers: Participant.find({chestNumber: {$exists: false}})
BackfillFind ==
    /\ backfill.pc = "idle"
    /\ backfill' = [pc |-> "read",
                    list |-> SortedSeq({p \in Existing(participants) :
                                           participants[p].chestNumber = 0}),
                    currentCount |-> 0]
    /\ UNCHANGED <<store, resp, emitted, repeated, notified, handed, creating, session, judging, awaiting>>

\* populateChestNumbers: let currentCount = counter ? counter.count : 0
BackfillRead ==
    /\ backfill.pc = "read"
    /\ backfill' = [backfill EXCEPT !.pc = "assign", !.currentCount = counter]
    /\ UNCHANGED <<store, resp, emitted, repeated, notified, handed, creating, session, judging, awaiting>>

\* populateChestNumbers: one turn of the loop, currentCount++ and updateOne; a
\* duplicate key error ends the script without the counter write
BackfillAssign ==
    /\ backfill.pc = "assign"
    /\ backfill.list # <<>>
    /\ Len(handed) < MaxHanded
    /\ LET p == Head(backfill.list)
           n == backfill.currentCount + 1
       IN  /\ handed' = Append(handed, n)
           /\ IF ~participants[p].exists
              THEN /\ UNCHANGED participants
                   /\ backfill' = [backfill EXCEPT !.list = Tail(@), !.currentCount = n]
              ELSE IF ChestIndexAllows(participants, p, n)
              THEN /\ participants' = [participants EXCEPT ![p].chestNumber = n]
                   /\ backfill' = [backfill EXCEPT !.list = Tail(@), !.currentCount = n]
              ELSE /\ UNCHANGED participants
                   /\ backfill' = [pc |-> "idle", list |-> <<>>, currentCount |-> 0]
    /\ UNCHANGED <<subEvents, rounds, groups, panels, evaluations, paymentSettings,
                   counter, users, resp, emitted, repeated, notified, creating, session, judging, awaiting>>

\* populateChestNumbers: Counter.findOneAndUpdate({count: currentCount}, {upsert: true})
BackfillWrite ==
    /\ backfill.pc = "assign"
    /\ backfill.list = <<>>
    /\ counter' = backfill.currentCount
    /\ backfill' = [pc |-> "idle", list |-> <<>>, currentCount |-> 0]
    /\ UNCHANGED <<participants, subEvents, rounds, groups, panels, evaluations,
                   paymentSettings, users, resp, emitted, repeated, notified, handed, creating, session, judging, awaiting>>

-----------------------------------------------------------------------------
(* Chest numbers under concurrent creations and the back-fill script: the    *)
(* first participant was stored before the hook existed and has no number,   *)
(* the counter has not been used.                                            *)

InitChest ==
    /\ participants =
           [p \in Participants |->
               IF p = 1 THEN RegisteredParticipant(0, {1}) ELSE NoDoc]
    /\ subEvents = [se \in SubEvents |-> NewSubEvent("individual")]
    /\ rounds = [r \in RoundIds |-> NoDoc]
    /\ groups = [g \in GroupIds |-> NoDoc]
    /\ panels = [pn \in PanelIds |-> NoDoc]
    /\ evaluations = [e \in EvaluationIds |-> NoDoc]
    /\ paymentSettings = NoDoc
    /\ counter = 0
    /\ users = <<>>
    /\ resp = NoResp
    /\ emitted = {}
    /\ IdleProcs

NextChest ==
    \/ \E p \in Participants : CreateHook(p)
    \/ \E p \in Participants : CreateInsert(p)
    \/ BackfillFind
    \/ BackfillRead
    \/ BackfillAssign
    \/ BackfillWrite

SpecChest == InitChest /\ [][NextChest]_vars

\* a participant that is created gets a chest number with its creation
AssignedAtCreation ==
    \A p \in Participants :
        (~participants[p].exists /\ participants'[p].exists)
            => participants'[p].chestNumber # 0

\* a chest number, once assigned, never changes
ChestNumberKept ==
    \A p \in Participants :
        (participants[p].exists /\ participants[p].chestNumber # 0 /\ participants'[p].exists)
            => participants'[p].chestNumber = participants[p].chestNumber

\* no two participants share a chest number
ChestNumbersDistinct(ps) ==
    \A p, q \in Existing(ps) :
        (p # q /\ ps[p].chestNumber # 0) => ps[p].chestNumber # ps[q].chestNumber

\* the numbers were handed out in strictly increasing order
StrictlyIncreasing(seq) == \A i, j \in DOMAIN seq : i < j => seq[i] < seq[j]

\* C8: every participant gets its chest number when it is created, an assigned
\* number never changes, no two participants share one, and the numbers are
\* handed out in strictly increasing order, also under concurrent creations and
\* while the back-fill script runs.
ChestNumbersMonotonic ==
    [][/\ AssignedAtCreation
       /\ ChestNumberKept
       /\ ChestNumbersDistinct(participants')
       /\ StrictlyIncreasing(handed')]_vars

-----------------------------------------------------------------------------
(* Payment settings, the bulk discount and Submit registration.  Amounts are *)
(* whole rupees; the prices and discount values used divide without rest.    *)

\* PaymentSettings.create({upiId, accountName, isActive: true}) with the schema defaults
DefaultSettings ==
    [exists |-> TRUE, enabled |-> FALSE, minEvents |-> 3,
     discountType |-> "percentage", discountValue |-> 10]

\* paymentSettingsSchema.statics.getActiveSettings: the active document, created
\* with the defaults if there is none
getActiveSettings(ps) == IF ps.exists THEN ps ELSE DefaultSettings

DiscountWithoutThreshold(settings, totalAmount, eventCount) ==
    IF ~settings.enabled THEN 0
    ELSE IF settings.discountType = "percentage"
    THEN (totalAmount * settings.discountValue) \div 100
    ELSE settings.discountValue

\* paymentSettingsSchema.methods.calculateDiscount
calculateDiscount(settings, totalAmount, eventCount) ==
    IF ~settings.enabled THEN 0
    ELSE IF eventCount < settings.minEvents THEN 0
    ELSE IF settings.discountType = "percentage"
    THEN (totalAmount * settings.discountValue) \div 100
    ELSE settings.discountValue

\* POST /api/payment-settings/calculate-discount
CalculateDiscount(totalAmount, eventCount) ==
    IF totalAmount = 0 \/ eventCount = 0
    THEN /\ Reply("calculateDiscount", 0, <<totalAmount, eventCount>>, 400, {})
         /\ UNCHANGED <<store, procs>>
    ELSE \E settings \in {getActiveSettings(paymentSettings)} :
         \E discount \in {calculateDiscount(settings, totalAmount, eventCount)} :
         /\ paymentSettings' = settings
         /\ ReplyData("calculateDiscount", 0, <<totalAmount, eventCount>>, 200,
                      [discount |-> discount, finalAmount |-> totalAmount - discount])
         /\ UNCHANGED <<participants, subEvents, rounds, groups, panels, evaluations,
                        counter, users, procs>>

\* PUT /api/admin/payment-settings with body {bulkRegistrationDiscount}
UpdatePaymentSettings(discount) ==
    /\ paymentSettings' =
           [getActiveSettings(paymentSettings) EXCEPT
               !.enabled = discount.enabled, !.minEvents = discount.minEvents,
               !.discountType = discount.discountType,
               !.discountValue = discount.discountValue]
    /\ Reply("updatePaymentSettings", 0, <<>>, 200, {"payment-settings:updated"})
    /\ UNCHANGED <<participants, subEvents, rounds, groups, panels, evaluations,
                   counter, users, procs>>

\* PUT /api/admin/subevents/:id with body {registrationPrice}
UpdateSubEvent(se, registrationPrice) ==
    IF ~subEvents[se].exists
    THEN /\ Reply("updateSubEvent", se, <<>>, 404, {})
         /\ UNCHANGED <<store, procs>>
    ELSE /\ subEvents' = [subEvents EXCEPT ![se].registrationPrice = registrationPrice]
         /\ Reply("updateSubEvent", se, <<>>, 200, {"subevent:updated"})
         /\ UNCHANGED <<participants, rounds, groups, panels, evaluations,
                        paymentSettings, counter, users, procs>>

\* event.registrationPrice || 50
PriceCharged(subEvent) ==
    IF subEvent.registrationPrice = 0 THEN 50 ELSE subEvent.registrationPrice

RECURSIVE calculatedSubtotal(_)
\* subEvents.reduce((total, event) => total + (event.registrationPrice || 50), 0)
calculatedSubtotal(ses) ==
    IF ses = {} THEN 0
    ELSE LET se == Min(ses)
         IN  PriceCharged(subEvents[se]) + calculatedSubtotal(ses \ {se})

\* Math.max(0, calculatedSubtotal - calculatedDiscount)
expectedAmount(settings, ses) ==
    Max({0, calculatedSubtotal(ses)
                - calculateDiscount(settings, calculatedSubtotal(ses), Cardinality(ses))})

\* Participant.findOne({$or: [{email}, {prn}, {mobile}]})
existingParticipant(identity) ==
    {p \in Existing(participants) : participants[p].identity = identity}

\* SubEvent.find({_id: {$in: subEventIds}, isActiveForRegistration: true}) finds them all
AllOpen(ses) == \A se \in ses : subEvents[se].exists /\ subEvents[se].isActiveForRegistration

\* event.maxParticipants && event.approvedParticipants >= event.maxParticipants
IsFull(subEvent) ==
    subEvent.maxParticipants # 0 /\ subEvent.approvedParticipants >= subEvent.maxParticipants

\* POST /api/registration/submit with the required fields and the payment proof
\* given: identity stands for email, PRN and mobile, paidAmount for parseFloat(paidAmount)
SubmitRegistration(identity, ses, paidAmount) ==
    IF ses = {} \/ existingParticipant(identity) # {} \/ ~AllOpen(ses)
          \/ (\E se \in ses : IsFull(subEvents[se]))
    THEN /\ Reply("submit", 0, <<identity, ses, paidAmount>>, 400, {})
         /\ UNCHANGED <<store, procs>>
    ELSE \E settings \in {getActiveSettings(paymentSettings)} :
         IF paidAmount < expectedAmount(settings, ses)
         THEN /\ paymentSettings' = settings
              /\ Reply("submit", 0, <<identity, ses, paidAmount>>, 400, {})
              /\ UNCHANGED <<participants, subEvents, rounds, groups, panels,
                             evaluations, counter, users, procs>>
         ELSE \E id \in {FreshId(participants)} :
              /\ id # 0
              /\ paymentSettings' = settings
              /\ counter' = counter + 1
              /\ handed' = Append(handed, counter + 1)
              /\ IF ChestIndexAllows(participants, id, counter + 1)
                 THEN /\ participants' =
                            [participants EXCEPT ![id] =
                                [RegisteredParticipant(counter + 1, ses)
                                    EXCEPT !.identity = identity]]
                      /\ subEvents' =
                            [se \in SubEvents |->
                                IF se \in ses
                                THEN [subEvents[se] EXCEPT !.totalRegistrations = @ + 1]
                                ELSE subEvents[se]]
                      /\ Reply("submit", id, <<identity, ses, paidAmount>>, 201, {})
                 ELSE /\ UNCHANGED <<participants, subEvents>>
                      /\ Reply("submit", 0, <<identity, ses, paidAmount>>, 500, {})
              /\ UNCHANGED <<rounds, groups, panels, evaluations, users, creating,
                             backfill, session, judging, awaiting>>

-----------------------------------------------------------------------------
(* Registration against the payment settings: all participants but the last  *)
(* have registered, the sub-events charge the default price, no payment      *)
(* settings document exists yet.                                             *)

Prices == {0, 50}
Amounts == {0, 50, 90, 100}
EventCounts == {0, 1, 2, 3}
DiscountInputs ==
    [enabled : BOOLEAN, minEvents : {2, 3}, discountType : {"percentage", "fixed"},
     discountValue : {10, 120}]

InitPayment ==
    /\ participants =
           [p \in Participants |->
               IF p < NumParticipants THEN RegisteredParticipant(p, {1}) ELSE NoDoc]
    /\ subEvents =
           [se \in SubEvents |->
               [NewSubEvent("individual") EXCEPT
                   !.totalRegistrations = IF se = 1 THEN NumParticipants - 1 ELSE 0]]
    /\ rounds = [r \in RoundIds |-> NoDoc]
    /\ groups = [g \in GroupIds |-> NoDoc]
    /\ panels = [pn \in PanelIds |-> NoDoc]
    /\ evaluations = [e \in EvaluationIds |-> NoDoc]
    /\ paymentSettings = NoDoc
    /\ counter = NumParticipants - 1
    /\ users = <<>>
    /\ resp = NoResp
    /\ emitted = {}
    /\ IdleProcs

NextPayment ==
    \/ \E identity \in Participants, ses \in SUBSET SubEvents, paidAmount \in Amounts :
          SubmitRegistration(identity, ses, paidAmount)
    \/ \E totalAmount \in Amounts, eventCount \in EventCounts :
          CalculateDiscount(totalAmount, eventCount)
    \/ \E discount \in DiscountInputs : UpdatePaymentSettings(discount)
    \/ \E se \in SubEvents, price \in Prices : UpdateSubEvent(se, price)

SpecPayment == InitPayment /\ [][NextPayment]_vars

RECURSIVE SumOfPrices(_)
\* the sum of the prices of the chosen sub-events
SumOfPrices(ses) ==
    IF ses = {} THEN 0
    ELSE LET se == Min(ses) IN subEvents[se].registrationPrice + SumOfPrices(ses \ {se})

\* the bulk discount as the documentation defines it
StatedDiscount(settings, subtotal, eventCount) ==
    IF ~settings.enabled \/ eventCount < settings.minEvents THEN 0
    ELSE IF settings.discountType = "percentage"
    THEN (subtotal * settings.discountValue) \div 100
    ELSE settings.discountValue

\* sum of the chosen sub-events' prices minus the bulk discount, floored at 0
StatedExpected(ses) ==
    Max({0, SumOfPrices(ses)
                - StatedDiscount(getActiveSettings(paymentSettings), SumOfPrices(ses),
                                 Cardinality(ses))})

\* the validations of Submit registration other than the amount pass
OtherValidationsPass(identity, ses) ==
    /\ ses # {}
    /\ \A p \in Existing(participants) : participants[p].identity # identity
    /\ \A se \in ses : /\ subEvents[se].exists
                       /\ subEvents[se].isActiveForRegistration
                       /\ ~IsFull(subEvents[se])

\* exactly one participant was created, pending, with one not_started entry
\* (round number 0, no current round) per chosen sub-event
OnePendingCreated(ses) ==
    \E id \in Participants :
        /\ ~participants[id].exists
        /\ participants'[id].exists
        /\ \A q \in Participants \ {id} : participants'[q] = participants[q]
        /\ participants'[id].registrationStatus = "pending"
        /\ \A se \in SubEvents :
              participants'[id].statusPerSubEvent[se] =
                  IF se \in ses
                  THEN [status |-> "not_started", currentRound |-> 0, roundNumber |-> 0]
                  ELSE NoEntry

\* C9: with all other validations passing, Submit registration is rejected iff the
\* paid amount is below the expected amount (sum of the chosen sub-events' prices
\* minus the bulk discount, floored at 0); on success exactly one pending
\* participant is created with one not_started entry per chosen sub-event.
PaymentThreshold ==
    [][(resp'.op = "submit" /\ OtherValidationsPass(resp'.arg[1], resp'.arg[2]))
       => IF resp'.arg[3] < StatedExpected(resp'.arg[2])
          THEN resp'.code = 400 /\ participants' = participants
          ELSE resp'.code = 201 /\ OnePendingCreated(resp'.arg[2])]_vars

\* C10: calculateDiscount(subtotal, eventCount) is 0 when the bulk discount is
\* disabled or eventCount is below the minimum event count, otherwise
\* subtotal * value / 100 in percentage mode and value in fixed mode, for every
\* subtotal and event count under the settings in force and in every answer of
\* the calculate-discount endpoint.
DiscountPiecewise ==
    /\ \A subtotal \in Amounts, eventCount \in EventCounts :
          LET settings == getActiveSettings(paymentSettings)
              d == calculateDiscount(settings, subtotal, eventCount)
          IN  IF ~settings.enabled \/ eventCount < settings.minEvents THEN d = 0
              ELSE IF settings.discountType = "percentage"
              THEN d * 100 = subtotal * settings.discountValue
              ELSE d = settings.discountValue
    /\ (resp.op = "calculateDiscount" /\ resp.code = 200)
          => resp.data.discount
                 = StatedDiscount(paymentSettings, resp.arg[1], resp.arg[2])

\* C10 witness: the endpoint answered with a fixed discount above the subtotal
\* while the threshold is met
FixedDiscountAboveSubtotal ==
    /\ resp.op = "calculateDiscount" /\ resp.code = 200
    /\ paymentSettings.enabled
    /\ paymentSettings.discountType = "fixed"
    /\ resp.arg[2] >= paymentSettings.minEvents
    /\ resp.data.discount = paymentSettings.discountValue
    /\ resp.data.discount > resp.arg[1]

-----------------------------------------------------------------------------
(* Judges' submissions with two panels: panel 1 has two judges and group 1,  *)
(* panel 2 has one judge and group 2; both groups belong to the started      *)
(* round 1 of sub-event 1.                                                   *)

\* a panel with the given judges as Panel.create stores it
PanelWith(se, judges) ==
    [exists |-> TRUE, subEventId |-> se, judges |-> judges, assignedGroups |-> {}]

\* the per-participant totals <<totalScore, maxTotalScore>> a judge sends
ScoreInputs == {<<0, 0>>, <<0, 10>>, <<6, 10>>}

InitEvaluate ==
    /\ participants =
           [p \in Participants |->
               IF p < NumParticipants THEN StartedParticipant(p, SubEvents, 1, 1, 1)
                                      ELSE RegisteredParticipant(p, SubEvents)]
    /\ subEvents = [se \in SubEvents |-> NewSubEvent("group")]
    /\ rounds = [r \in RoundIds |->
                    IF r = 1
                    THEN [NewRound(1, 1, SortedSeq(1..(NumParticipants - 1)))
                             EXCEPT !.status = "active"]
                    ELSE NoDoc]
    /\ groups = [g \in GroupIds |->
                    IF g \in PanelIds THEN [NewGroup(1, 1, g, {g}) EXCEPT !.panelId = g]
                                      ELSE NoDoc]
    /\ panels = [pn \in PanelIds |->
                    [(IF pn = 1 THEN NewPanel(1)
                      ELSE PanelWith(1, <<[email |-> 3, accessCode |-> 3]>>))
                        EXCEPT !.assignedGroups = {pn}]]
    /\ evaluations = [e \in EvaluationIds |-> NoDoc]
    /\ paymentSettings = NoDoc
    /\ counter = NumParticipants
    /\ users = <<>>
    /\ resp = NoResp
    /\ emitted = {}
    /\ IdleProcs

NextEvaluate ==
    \E code \in AccessCodes, g \in GroupIds, flagged \in SUBSET {1}, score \in ScoreInputs :
        SubmitEvaluation(code, g, flagged, score)

SpecEvaluate == InitEvaluate /\ [][NextEvaluate]_vars

\* the evaluations stored for group g
EvaluationsFor(g) == {e \in Existing(evaluations) : evaluations[e].groupId = g}

\* the judges that have an evaluation stored for group g
JudgesFor(g) ==
    {<<evaluations[e].panelId, evaluations[e].judgeEmail>> : e \in EvaluationsFor(g)}

\* C11: after each Submit evaluation for a group, the group's evaluationStatus
\* is completed exactly when the number of distinct judges' evaluations stored
\* for the group has reached the number of judges of the group's panel, and
\* in_progress otherwise; when completed, averageScore is the mean of those
\* evaluations' percentages.
EvaluationStatusFollowsPanel ==
    (/\ resp.op = "evaluate" /\ resp.code = 201
     /\ groups[resp.id].panelId \in Existing(panels))
    => LET g == resp.id
           judgeCount == Len(panels[groups[g].panelId].judges)
       IN  IF Cardinality(JudgesFor(g)) >= judgeCount
           THEN /\ groups[g].evaluationStatus = "completed"
                /\ groups[g].averageScore * Cardinality(EvaluationsFor(g))
                       = SumOver(evaluations, EvaluationsFor(g))
           ELSE groups[g].evaluationStatus = "in_progress"

-----------------------------------------------------------------------------
(* Auto-formation against the minimum group size: as for group formation,    *)
(* but sub-event se asks for groups of at least 4 - se and at most 3 members.*)

InitAutoForm ==
    /\ participants = [p \in Participants |-> ApprovedParticipant(p, SubEvents)]
    /\ subEvents = [se \in SubEvents |->
                       [NewSubEvent("group") EXCEPT !.groupSizeMin = 4 - se,
                                                    !.groupSizeMax = 3]]
    /\ rounds = [r \in RoundIds |->
                    IF r \in SubEvents THEN NewRound(r, 1, SortedSeq(Participants))
                                       ELSE NoDoc]
    /\ groups = [g \in GroupIds |-> NoDoc]
    /\ panels = [pn \in PanelIds |-> NoDoc]
    /\ evaluations = [e \in EvaluationIds |-> NoDoc]
    /\ paymentSettings = NoDoc
    /\ counter = NumParticipants
    /\ users = <<>>
    /\ resp = NoResp
    /\ emitted = {}
    /\ IdleProcs

NextAutoForm ==
    \/ \E r \in Existing(rounds), ids \in SUBSET Participants :
          CreateGroup(rounds[r].subEvent, r, ids)
    \/ \E r \in Existing(rounds), groupSize \in GroupSizes :
          AutoFormGroups(rounds[r].subEvent, r, groupSize)

SpecAutoForm == InitAutoForm /\ [][NextAutoForm]_vars

\* the groups that the step created
FormedByStep == {g \in GroupIds : ~groups[g].exists /\ groups'[g].exists}

\* C12: Auto-form groups never leaves a group it formed with fewer members than
\* the sub-event's configured minimum group size, for every pool size and
\* requested target size, unless that group is the only group formed and the
\* pool itself was smaller than the minimum.
AutoFormRespectsMinimum ==
    [][(resp'.op = "autoForm" /\ resp'.code = 201)
       => LET r == resp'.id
              se == rounds[r].subEvent
              pool == AutoFormPool(se, r) \ AssignedIn(groups, r)
              minSize == subEvents[se].groupSizeMin
          IN  \A g \in FormedByStep :
                  \/ Cardinality(groups'[g].participants) >= minSize
                  \/ /\ Cardinality(FormedByStep) = 1
                     /\ Cardinality(pool) < minSize]_vars

-----------------------------------------------------------------------------
(* Seeding of round 1: registrations are under review (participant p is      *)
(* registered for the sub-events up to p) while rounds are created.          *)

\* the roundNumber values of a Create round body
RoundNumberBodies ==
    {JsonNumber(n) : n \in RoundNumbers} \cup {JsonString(t) : t \in {"1", "01", "2"}}

InitSeed == InitApprove

NextSeed ==
    \/ \E p \in Participants : Approve(p)
    \/ \E p \in Participants : Reject(p, "")
    \/ \E se \in SubEvents, roundNumber \in RoundNumberBodies :
          CreateRoundFrom(se, roundNumber)

SpecSeed == InitSeed /\ [][NextSeed]_vars

\* C13: Create round with sequence number 1 sets the new round's participant
\* list to exactly the participants registered for the sub-event whose
\* registration status is approved at that moment (no more, no fewer, no
\* duplicates); Create round with any other sequence number starts with an
\* empty participant list.
RoundOneSeeded ==
    [][(resp'.op = "createRound" /\ resp'.code = 201)
       => LET round == rounds'[resp'.id]
          IN  IF round.roundNumber = 1
              THEN /\ SeqToSet(round.participants) = ApprovedFor(round.subEvent)
                   /\ Len(round.participants) = Cardinality(ApprovedFor(round.subEvent))
              ELSE round.participants = <<>>]_vars

-----------------------------------------------------------------------------
(* Promote selected, repeated *)

\* C14: Promote selected is idempotent: run again on the same round straight
\* after a successful run, with the evaluations unchanged, it succeeds and leaves
\* every stored document as the first run left it - same winner list, same
\* next-round participant list without duplicates, same participant
\* availabilities and per-sub-event statuses.
PromoteIdempotent ==
    [][(/\ resp.op = "promote" /\ resp.code = 200
        /\ resp'.op = "promote" /\ resp'.id = resp.id)
       => /\ resp'.code = 200
          /\ store' = store
          /\ \A n \in NextRoundOf(rounds', resp'.id), p \in Participants :
                Occurrences(rounds'[n].participants, p) <= 1]_vars

\* C14 witness: a successful promotion was run a second time in a row on a round
\* with a winner and an eliminated participant
PromotedTwice ==
    /\ repeated
    /\ resp.op = "promote" /\ resp.code = 200
    /\ rounds[resp.id].winners # <<>>
    /\ \E p \in SeqToSet(rounds[resp.id].participants) :
          participants[p].statusPerSubEvent[rounds[resp.id].subEvent].status = "eliminated"

-----------------------------------------------------------------------------
(* Submit evaluation step by step: the handler awaits Evaluation.findOne and *)
(* then evaluation.save(), and requests interleave at these awaits.          *)

\* POST /api/judge/evaluate up to the answer of Evaluation.findOne: the panel,
\* the judge and the group are resolved, and the judge's evaluation is looked up
EvaluateFind(q, code, g, flagged, score) ==
    /\ judging[q].pc = "idle"
    /\ IF PanelOfCode(code) = {}
       THEN /\ Reply("evaluate", g, <<code>>, 401, {})
            /\ UNCHANGED <<store, procs>>
       ELSE IF ~groups[g].exists
       THEN /\ Reply("evaluate", g, <<code>>, 404, {})
            /\ UNCHANGED <<store, procs>>
       ELSE LET pn == Min(PanelOfCode(code))
                panel == panels[pn]
                judge == panel.judges[CHOOSE j \in DOMAIN panel.judges :
                                          panel.judges[j].accessCode = code]
                found == {e \in Existing(evaluations) :
                             /\ evaluations[e].groupId = g
                             /\ evaluations[e].panelId = pn
                             /\ evaluations[e].judgeEmail = judge.email}
            IN  /\ judging' = [judging EXCEPT ![q] =
                       [pc |-> "found", code |-> code, groupId |-> g, panelId |-> pn,
                        judgeEmail |-> judge.email, judges |-> Len(panel.judges),
                        flagged |-> flagged, score |-> FinalScore(score),
                        evaluation |-> IF found # {} THEN Min(found) ELSE 0]]
                /\ UNCHANGED <<store, resp, emitted, repeated, notified, handed, creating,
                               backfill, session, awaiting>>

\* the rest of the handler: evaluation.save() (an update of the document found,
\* an insert if none was found), Evaluation.find({groupId}), group.save(), the
\* broadcasts and the answer
EvaluateSave(q) ==
    /\ judging[q].pc = "found"
    /\ LET req == judging[q]
           g == req.groupId
           evaluation ==
               IF req.evaluation # 0
               THEN [evaluations[req.evaluation] EXCEPT
                        !.totalScore = req.score[1], !.maxTotalScore = req.score[2],
                        !.percentage = Percentage(req.score[1], req.score[2]),
                        !.selectedForNextRound = req.flagged]
               ELSE [exists |-> TRUE, groupId |-> g, panelId |-> req.panelId,
                     roundId |-> groups[g].roundId, judgeEmail |-> req.judgeEmail,
                     totalScore |-> req.score[1], maxTotalScore |-> req.score[2],
                     percentage |-> Percentage(req.score[1], req.score[2]),
                     selectedForNextRound |-> req.flagged]
       IN  \E id \in {IF req.evaluation # 0 THEN req.evaluation
                                           ELSE FreshId(evaluations)} :
           \E evs \in {[evaluations EXCEPT ![id] = evaluation]} :
           \E allEvaluations \in {{e \in Existing(evs) : evs[e].groupId = g}} :
           /\ id # 0
           /\ evaluations' = evs
           /\ groups' = [groups EXCEPT ![g] =
                 IF Cardinality(allEvaluations) >= req.judges
                 THEN [@ EXCEPT !.evaluationStatus = "completed",
                                !.averageScore = SumOver(evs, allEvaluations)
                                                    \div Cardinality(allEvaluations)]
                 ELSE [@ EXCEPT !.evaluationStatus = "in_progress"]]
           /\ judging' = [judging EXCEPT ![q] = NoRequest]
           /\ Reply("evaluate", g, <<req.code>>, 201,
                    {"evaluation:submitted", "evaluation:updated"})
           /\ UNCHANGED <<participants, subEvents, rounds, panels, paymentSettings,
                          counter, users, handed, creating, backfill, session, awaiting>>

InitOverlap == InitEvaluate

NextOverlap ==
    \/ \E q \in Requests, code \in AccessCodes, g \in GroupIds :
          EvaluateFind(q, code, g, {}, <<6, 10>>)
    \/ \E q \in Requests : EvaluateSave(q)

SpecOverlap == InitOverlap /\ [][NextOverlap]_vars

\* C15: there is at most one Evaluation per (group, judge) after any sequence of
\* Submit evaluation calls, two overlapping submissions by the same judge for
\* the same group included: a repeated submission updates the judge's existing
\* Evaluation instead of adding a second one.
OneEvaluationPerJudge ==
    \A a, b \in Existing(evaluations) :
        (/\ a # b
         /\ evaluations[a].groupId = evaluations[b].groupId)
        => ~(/\ evaluations[a].panelId = evaluations[b].panelId
             /\ evaluations[a].judgeEmail = evaluations[b].judgeEmail)

-----------------------------------------------------------------------------
(* The panels router: Create panel, Update panel, Regenerate codes, Delete   *)
(* panel.  Math.random() is a free choice among the access codes.            *)

\* the access codes the judges of the panels ps hold, panel id left out
CodesHeld(ps, id) ==
    UNION {{ps[o].judges[j].accessCode : j \in DOMAIN ps[o].judges} :
              o \in Existing(ps) \ {id}}

\* the unique index on judges.accessCode: a multikey index compares the keys of
\* a document with those of the other documents, not with each other
PanelIndexAllows(ps, id, judges) ==
    {judges[j].accessCode : j \in DOMAIN judges} \cap CodesHeld(ps, id) = {}

\* the status the error handler gives a duplicate key error
DuplicateKeyStatus == 400

\* judges.map(judge => ({...judge, accessCode: Math.random()...})) with the
\* draws codes
WithCodes(judges, codes) ==
    [j \in DOMAIN judges |-> [judges[j] EXCEPT !.accessCode = codes[j]]]

\* POST /api/admin/panels with body {subEventId: se, judges}
CreatePanel(se, judges, codes) ==
    IF judges = <<>>
    THEN /\ Reply("createPanel", 0, <<>>, 400, {})
         /\ UNCHANGED <<store, procs>>
    ELSE IF ~PanelIndexAllows(panels, 0, WithCodes(judges, codes))
    THEN /\ Reply("createPanel", 0, <<>>, DuplicateKeyStatus, {})
         /\ UNCHANGED <<store, procs>>
    ELSE LET id == FreshId(panels)
         IN  /\ id # 0
             /\ panels' = [panels EXCEPT ![id] = PanelWith(se, WithCodes(judges, codes))]
             /\ Reply("createPanel", id, <<>>, 201, {"panel:created"})
             /\ UNCHANGED <<participants, subEvents, rounds, groups, evaluations,
                            paymentSettings, counter, users, procs>>

\* PUT /api/admin/panels/:id with body {judges}
UpdatePanel(pn, judges) ==
    IF ~panels[pn].exists
    THEN /\ Reply("updatePanel", pn, <<>>, 404, {})
         /\ UNCHANGED <<store, procs>>
    ELSE IF judges # <<>> /\ ~PanelIndexAllows(panels, pn, judges)
    THEN /\ Reply("updatePanel", pn, <<>>, DuplicateKeyStatus, {})
         /\ UNCHANGED <<store, procs>>
    ELSE /\ panels' = [panels EXCEPT ![pn].judges = IF judges # <<>> THEN judges ELSE @]
         /\ Reply("updatePanel", pn, <<>>, 200, {})
         /\ UNCHANGED <<participants, subEvents, rounds, groups, evaluations,
                        paymentSettings, counter, users, procs>>

\* POST /api/admin/panels/:id/regenerate-codes with the draws codes
RegenerateCodes(pn, codes) ==
    IF ~panels[pn].exists
    THEN /\ Reply("regenerateCodes", pn, <<>>, 404, {})
         /\ UNCHANGED <<store, procs>>
    ELSE IF ~PanelIndexAllows(panels, pn, WithCodes(panels[pn].judges, codes))
    THEN /\ Reply("regenerateCodes", pn, <<>>, DuplicateKeyStatus, {})
         /\ UNCHANGED <<store, procs>>
    ELSE /\ panels' = [panels EXCEPT ![pn].judges = WithCodes(@, codes)]
         /\ Reply("regenerateCodes", pn, <<>>, 200, {})
         /\ UNCHANGED <<participants, subEvents, rounds, groups, evaluations,
                        paymentSettings, counter, users, procs>>

\* DELETE /api/admin/panels/:id
DeletePanel(pn) ==
    IF ~panels[pn].exists
    THEN /\ Reply("deletePanel", pn, <<>>, 404, {})
         /\ UNCHANGED <<store, procs>>
    ELSE /\ groups' = [g \in GroupIds |->
                          IF groups[g].exists /\ groups[g].panelId = pn
                          THEN [groups[g] EXCEPT !.panelId = 0]
                          ELSE groups[g]]
         /\ panels' = [panels EXCEPT ![pn] = NoDoc]
         /\ Reply("deletePanel", pn, <<>>, 200, {})
         /\ UNCHANGED <<participants, subEvents, rounds, evaluations,
                        paymentSettings, counter, users, procs>>

-----------------------------------------------------------------------------
(* Panels and their access codes: no panel exists yet; a panel has at most   *)
(* two judges.                                                               *)

\* the judge lists of a request body: up to two judges, judge j with e-mail j
\* and an access code of the body (0: none given)
JudgeBodies(codes) ==
    {<<>>}
      \cup {<<[email |-> 1, accessCode |-> a]>> : a \in codes}
      \cup {<<[email |-> 1, accessCode |-> a], [email |-> 2, accessCode |-> b]>> :
               a \in codes, b \in codes}

\* the draws of Math.random() for up to two judges
Draws == [1..2 -> AccessCodes]

InitPanels == InitRounds

NextPanels ==
    \/ \E se \in SubEvents, judges \in JudgeBodies({0}), codes \in Draws :
          CreatePanel(se, judges, codes)
    \/ \E pn \in PanelIds, judges \in JudgeBodies(AccessCodes) : UpdatePanel(pn, judges)
    \/ \E pn \in PanelIds, codes \in Draws : RegenerateCodes(pn, codes)
    \/ \E pn \in PanelIds : DeletePanel(pn)

SpecPanels == InitPanels /\ [][NextPanels]_vars

\* C16: after any sequence of Create panel, Update panel and Regenerate codes
\* operations no two judges - in the same panel or in different panels - hold
\* the same access code.
AccessCodesUnique ==
    \A pn, pm \in Existing(panels) :
        \A j \in DOMAIN panels[pn].judges, k \in DOMAIN panels[pm].judges :
            (pn # pm \/ j # k)
                => panels[pn].judges[j].accessCode # panels[pm].judges[k].accessCode

\* access codes are unique between different panels
AccessCodesUniqueAcrossPanels ==
    \A pn, pm \in Existing(panels) :
        pn # pm =>
            \A j \in DOMAIN panels[pn].judges, k \in DOMAIN panels[pm].judges :
                panels[pn].judges[j].accessCode # panels[pm].judges[k].accessCode

-----------------------------------------------------------------------------
(* Start round on a round that is active *)

\* C17: Start round on a round that is already active is rejected with a
\* 400-class error and changes neither the round nor any participant's
\* availability or status entry.
StartActiveRefused ==
    [][(/\ resp'.op = "startRound"
        /\ rounds[resp'.id].exists
        /\ rounds[resp'.id].status = "active")
       => /\ resp'.code >= 400 /\ resp'.code < 500
          /\ rounds' = rounds
          /\ participants' = participants]_vars

-----------------------------------------------------------------------------
(* Submit registration that fails a validation *)

\* C18: when Submit registration fails a validation it returns a client error
\* and has written nothing: no Participant is created, no chest number is
\* consumed from the counter, no sub-event registration counter changes and no
\* settings document is created.
FailedSubmitWritesNothing ==
    [][(resp'.op = "submit" /\ resp'.code >= 400 /\ resp'.code < 500)
       => /\ participants' = participants
          /\ counter' = counter
          /\ subEvents' = subEvents
          /\ paymentSettings' = paymentSettings]_vars

-----------------------------------------------------------------------------
(* The real-time channel *)

\* POST /api/admin/groups/:id/notify
NotifyGroup(g) ==
    IF ~groups[g].exists
    THEN /\ Reply("notify", g, <<>>, 404, {})
         /\ UNCHANGED <<store, procs>>
    ELSE LET group == groups[g]
             members == {p \in group.participants : participants[p].exists}
             round == IF group.roundId \in Existing(rounds) THEN rounds[group.roundId]
                                                           ELSE NoDoc
         IN  /\ participants' =
                    [p \in Participants |->
                        IF p \in members
                        THEN [participants[p] EXCEPT
                                 !.currentStatus = "busy",
                                 !.currentEvent = group.subEventId,
                                 !.statusPerSubEvent[group.subEventId] =
                                     [status |-> "active",
                                      currentRound |-> IF round.exists THEN group.roundId
                                                                       ELSE 0,
                                      roundNumber |-> IF round.exists /\ round.roundNumber # 0
                                                      THEN round.roundNumber
                                                      ELSE @.roundNumber]]
                        ELSE participants[p]]
             /\ ReplyTo("notify", g, <<>>, 200,
                        IF members = {} THEN {}
                        ELSE {"participant:notification", "participant:status_updated"},
                        [p \in Participants |-> IF p \in members THEN "busy" ELSE "none"])
             /\ UNCHANGED <<subEvents, rounds, groups, panels, evaluations,
                            paymentSettings, counter, users, procs>>

\* the started round with its group and panel; the registration of the last
\* participant is still under review
InitChannel == InitPromote

NextChannel ==
    \/ CreateRound(1, 2)
    \/ \E code \in {1, 3} : SubmitEvaluation(code, 1, {1}, <<1, 2>>)
    \/ \E r \in RoundIds : PromoteSelected(r)
    \/ StartRound(1)
    \/ EndRound(1)
    \/ \E g \in GroupIds : NotifyGroup(g)
    \/ \E p \in Participants : Approve(p)

SpecChannel == InitChannel /\ [][NextChannel]_vars

\* the status sent to participant p is a status the store holds for p
StatusWritten(p) ==
    /\ participants[p].exists
    /\ \/ participants[p].currentStatus = notified[p]
       \/ participants[p].registrationStatus = notified[p]

\* C19: the real-time channel carries only successful state changes: an
\* operation that ends with an error response has emitted no event, and every
\* emitted event describes a state change that was already written to the store.
ChannelOnlyStateChanges ==
    /\ resp.code >= 400 => (emitted = {} /\ notified = NoStatusEvents)
    /\ \A p \in Participants : notified[p] # "none" => StatusWritten(p)

\* an operation that ends with an error response has emitted no event
ErrorsEmitNothing == resp.code >= 400 => (emitted = {} /\ notified = NoStatusEvents)

-----------------------------------------------------------------------------
(* Promote selected without a next round *)

\* a round of the same sub-event with the round number of r plus one exists
HasNextRound(r) ==
    \E n \in RoundIds : /\ rounds[n].exists
                         /\ rounds[n].subEvent = rounds[r].subEvent
                         /\ rounds[n].roundNumber = rounds[r].roundNumber + 1

\* C20: Promote selected on a round whose next sequential round (same
\* sub-event, round number + 1) does not exist fails with an error and changes
\* nothing: no round's winner or participant list and no participant's
\* availability or per-sub-event status is modified.
PromoteNeedsNextRound ==
    [][(/\ resp'.op = "promote"
        /\ rounds[resp'.id].exists
        /\ ~HasNextRound(resp'.id))
       => /\ resp'.code >= 400
          /\ rounds' = rounds
          /\ participants' = participants
          /\ emitted' = {}]_vars

\* C20 witness: a promotion was refused for a round with evaluations that select
\* a participant, no next round existing
PromoteRefusedWithSelection ==
    /\ resp.op = "promote" /\ resp.code = 400
    /\ rounds[resp.id].exists
    /\ ~HasNextRound(resp.id)
    /\ SelectedIn(evaluations, resp.id) # {}
    /\ rounds[resp.id].winners = <<>>

-----------------------------------------------------------------------------
(* End round next to promotion and manual availability updates *)

\* PUT /api/admin/participants/:id/current-status with body {status}
UpdateCurrentStatus(p, status) ==
    IF ~participants[p].exists
    THEN /\ Reply("currentStatus", p, <<status>>, 404, {})
         /\ UNCHANGED <<store, procs>>
    ELSE /\ participants' = [participants EXCEPT ![p].currentStatus = status]
         /\ Reply("currentStatus", p, <<status>>, 200, {"availability_update"})
         /\ UNCHANGED <<subEvents, rounds, groups, panels, evaluations,
                        paymentSettings, counter, users, procs>>

\* the started round with its group and panel, as for Promote selected
InitEnd == InitPromote

NextEnd ==
    \/ CreateRound(1, 2)
    \/ SubmitEvaluation(1, 1, {1}, <<1, 2>>)
    \/ PromoteSelected(1)
    \/ \E p \in Participants, status \in {"busy", "rejected"} :
          UpdateCurrentStatus(p, status)
    \/ \E r \in RoundIds : StartRound(r)
    \/ \E r \in RoundIds : EndRound(r)

SpecEnd == InitEnd /\ [][NextEnd]_vars

\* C21: End round sets the round to completed and sets every listed participant
\* whose availability is neither qualified nor rejected to available with no
\* current event; listed participants already qualified or rejected, and all
\* participants not listed in the round, keep their availability and current event.
EndRoundFrame ==
    [][(resp'.op = "endRound" /\ resp'.code = 200)
       => /\ rounds'[resp'.id].status = "completed"
          /\ \A p \in Existing(participants) :
                IF /\ p \in SeqToSet(rounds[resp'.id].participants)
                   /\ participants[p].currentStatus \notin {"qualified", "rejected"}
                THEN /\ participants'[p].currentStatus = "available"
                     /\ participants'[p].currentEvent = 0
                ELSE /\ participants'[p].currentStatus = participants[p].currentStatus
                     /\ participants'[p].currentEvent = participants[p].currentEvent]_vars

\* C21 witness: a round was ended whose list holds a qualified participant and a
\* participant of the started round who was released, while a participant outside
\* the list is still busy
EndRoundKeptResults ==
    /\ resp.op = "endRound" /\ resp.code = 200
    /\ \E p, q \in SeqToSet(rounds[resp.id].participants) :
          /\ participants[p].currentStatus = "qualified"
          /\ participants[q].currentStatus = "available"
          /\ participants[q].currentEvent = 0
          /\ participants[q].statusPerSubEvent[rounds[resp.id].subEvent].currentRound = resp.id
    /\ \E o \in Participants \ SeqToSet(rounds[resp.id].participants) :
          participants[o].currentStatus = "busy"

-----------------------------------------------------------------------------
(* Auto-formation as a partition of the pool *)

\* C22: Auto-form groups partitions the eligible unassigned pool: the groups
\* formed by one successful call are pairwise disjoint and their union is the
\* whole pool, for every pool size, target size and minimum size.
AutoFormPartitionsPool ==
    [][(resp'.op = "autoForm" /\ resp'.code = 201)
       => LET r == resp'.id
              se == rounds[r].subEvent
              pool == AutoFormPool(se, r) \ AssignedIn(groups, r)
          IN  /\ UNION {groups'[g].participants : g \in FormedByStep} = pool
              /\ \A g, h \in FormedByStep :
                    g # h => groups'[g].participants \cap groups'[h].participants = {}]_vars

-----------------------------------------------------------------------------
(* Auto-form groups step by step: the handler awaits Group.find and          *)
(* Participant.find (the already-assigned check), then Group.findOne for the *)
(* last group number, then Group.create, and requests interleave at these    *)
(* awaits.  The creates of one call are taken together.                      *)

GroupIndexUnique(gs, r, num) ==
    \A g \in Existing(gs) : ~(gs[g].roundId = r /\ gs[g].groupNumber = num)

\* GroupSchema.index({subEventId: 1, roundId: 1}) and index({panelId: 1}): no
\* index is unique, an insert is never refused for its round and number
GroupIndexAllows(gs, r, num) == TRUE

\* POST /api/admin/groups/auto-form up to the answer of Participant.find: the
\* sub-event and round are resolved and the unassigned pool is read and shuffled
AutoFormCheck(q, se, r, groupSize) ==
    /\ awaiting[q].pc = "idle"
    /\ IF ~subEvents[se].exists \/ ~rounds[r].exists
       THEN /\ Reply("autoForm", r, <<>>, 404, {})
            /\ UNCHANGED <<store, procs>>
       ELSE IF subEvents[se].type # "group"
       THEN /\ Reply("autoForm", r, <<>>, 400, {})
            /\ UNCHANGED <<store, procs>>
       ELSE IF AutoFormPool(se, r) \ AssignedIn(groups, r) = {}
       THEN /\ Reply("autoForm", r, <<>>, 400, {})
            /\ UNCHANGED <<store, procs>>
       ELSE \E shuffled \in Shuffles(AutoFormPool(se, r) \ AssignedIn(groups, r)) :
            /\ awaiting' = [awaiting EXCEPT ![q] =
                   [pc |-> "checked", subEventId |-> se, roundId |-> r,
                    shuffled |-> shuffled,
                    targetSize |-> TargetSize(subEvents[se], groupSize),
                    minSize |-> MinSizeOf(subEvents[se])]]
            /\ UNCHANGED <<store, resp, emitted, repeated, notified, handed, creating,
                           backfill, session, judging>>

\* Group.findOne({roundId}).sort({groupNumber: -1}): the number of the first group
AutoFormNumber(q) ==
    /\ awaiting[q].pc = "checked"
    /\ awaiting' = [awaiting EXCEPT ![q] =
           [pc |-> "numbered", subEventId |-> awaiting[q].subEventId,
            roundId |-> awaiting[q].roundId, shuffled |-> awaiting[q].shuffled,
            targetSize |-> awaiting[q].targetSize, minSize |-> awaiting[q].minSize,
            groupNumber |-> NextGroupNumber(groups, awaiting[q].roundId)]]
    /\ UNCHANGED <<store, resp, emitted, repeated, notified, handed, creating,
                   backfill, session, judging>>

\* the loop of Group.create calls and the answer
AutoFormCreate(q) ==
    /\ awaiting[q].pc = "numbered"
    /\ LET req == awaiting[q]
       IN  \E formed \in {FormGroups(req.shuffled, 1, req.targetSize, req.minSize, <<>>)} :
           \E ids \in {FreeGroupIds(groups, Len(formed))} :
               /\ Cardinality({g \in DOMAIN groups : ~groups[g].exists}) >= Len(formed)
               /\ awaiting' = [awaiting EXCEPT ![q] = NoRequest]
               /\ IF GroupIndexAllows(groups, req.roundId, req.groupNumber)
                  THEN /\ groups' =
                              [g \in GroupIds |->
                                  IF \E k \in DOMAIN ids : ids[k] = g
                                  THEN LET k == CHOOSE k \in DOMAIN ids : ids[k] = g
                                       IN  NewGroup(req.subEventId, req.roundId,
                                                    req.groupNumber + k - 1, formed[k])
                                  ELSE groups[g]]
                       /\ Reply("autoForm", req.roundId, <<>>, 201, {})
                  ELSE /\ UNCHANGED groups
                       /\ Reply("autoForm", req.roundId, <<>>, 500, {})
               /\ UNCHANGED <<participants, subEvents, rounds, panels, evaluations,
                              paymentSettings, counter, users, handed, creating,
                              backfill, session, judging>>

\* every participant approved for both sub-events, round 1 of each seeded; the
\* calls are all for round 1 of sub-event 1
InitFormRace == InitGroups

NextFormRace ==
    \/ \E q \in Requests, groupSize \in GroupSizes : AutoFormCheck(q, 1, 1, groupSize)
    \/ \E q \in Requests : AutoFormNumber(q)
    \/ \E q \in Requests : AutoFormCreate(q)

SpecFormRace == InitFormRace /\ [][NextFormRace]_vars

\* C23: two Auto-form groups calls for the same round are not serialised: a call
\* that passed the already-assigned check and read the last group number always
\* creates its groups from what it read and answers 201, whatever another call
\* has created meanwhile, so interleaved calls reach a state where two groups of
\* the round have the same group number or share a participant.
AutoFormCreateNeverRefused ==
    [][\A q \in Requests :
          (awaiting[q].pc = "numbered" /\ awaiting'[q].pc = "idle")
              => /\ resp'.op = "autoForm" /\ resp'.code = 201
                 /\ \E g \in FormedByStep :
                       /\ groups'[g].roundId = awaiting[q].roundId
                       /\ groups'[g].groupNumber = awaiting[q].groupNumber
                       /\ groups'[g].participants \subseteq SeqToSet(awaiting[q].shuffled)]_vars

\* C23 witness: after two interleaved calls, two groups of one round carry the
\* same group number and hold the same participant
AutoFormCollided ==
    /\ resp.op = "autoForm" /\ resp.code = 201
    /\ \E g, h \in Existing(groups) :
          /\ g # h
          /\ groups[g].roundId = groups[h].roundId
          /\ groups[g].groupNumber = groups[h].groupNumber
          /\ groups[g].participants \cap groups[h].participants # {}

-----------------------------------------------------------------------------
(* Approve step by step: the handler awaits Participant.findById, checks the *)
(* status it read, and then awaits participant.save(); requests interleave   *)
(* at these awaits.                                                          *)

VersionMatches(doc, read) == doc = read

\* participant.save() after registrationStatus and currentStatus were set: an
\* updateOne by _id with $set of the two paths, sent whatever the stored
\* document has become since it was read
SaveAllows(doc, read) == TRUE

\* PUT /api/admin/participants/:id/approve up to the already-approved check
ApproveFind(q, p) ==
    /\ awaiting[q].pc \in {"idle", "answered"}
    /\ IF ~participants[p].exists
       THEN /\ Reply("approve", p, <<>>, 404, {})
            /\ awaiting' = [awaiting EXCEPT ![q] = NoRequest]
            /\ UNCHANGED <<store, handed, creating, backfill, session, judging>>
       ELSE IF AlreadyIn(participants[p], "approved")
       THEN /\ Reply("approve", p, <<>>, 400, {})
            /\ awaiting' = [awaiting EXCEPT ![q] = NoRequest]
            /\ UNCHANGED <<store, handed, creating, backfill, session, judging>>
       ELSE /\ awaiting' = [awaiting EXCEPT ![q] =
                   [pc |-> "read", participant |-> p, read |-> participants[p]]]
            /\ UNCHANGED <<store, resp, emitted, repeated, notified, handed, creating,
                           backfill, session, judging>>

\* the rest of the handler: participant.save(), the recount of the sub-events,
\* the broadcasts and the answer; the slot keeps the answered request
ApproveSave(q) ==
    /\ awaiting[q].pc = "read"
    /\ LET p == awaiting[q].participant
       IN  IF ~SaveAllows(participants[p], awaiting[q].read)
           THEN /\ Reply("approve", p, <<>>, 500, {})
                /\ awaiting' = [awaiting EXCEPT ![q] =
                       [pc |-> "answered", participant |-> p, code |-> 500]]
                /\ UNCHANGED <<store, handed, creating, backfill, session, judging>>
           ELSE \E saved \in {[participants EXCEPT ![p].registrationStatus = "approved",
                                                   ![p].currentStatus = "available"]} :
                /\ participants' = saved
                /\ subEvents' =
                       [se \in SubEvents |->
                           IF subEvents[se].exists /\ se \in saved[p].registeredSubEvents
                           THEN [subEvents[se] EXCEPT
                                    !.approvedParticipants = ApprovedCount(saved, se)]
                           ELSE subEvents[se]]
                /\ ReplyTo("approve", p, <<>>, 200,
                           {"participant:approved", "participant:status_updated",
                            "participant:notification", "availability_update"},
                           [NoStatusEvents EXCEPT ![p] = "approved"])
                /\ awaiting' = [awaiting EXCEPT ![q] =
                       [pc |-> "answered", participant |-> p, code |-> 200]]
                /\ UNCHANGED <<rounds, groups, panels, evaluations, paymentSettings,
                               counter, users, handed, creating, backfill, session,
                               judging>>

\* every participant has submitted a registration and waits for a decision
InitApproveRace == InitApprove

NextApproveRace ==
    \/ \E q \in Requests, p \in Participants : ApproveFind(q, p)
    \/ \E q \in Requests : ApproveSave(q)
    \/ \E p \in Participants : Reject(p, "")

SpecApproveRace == InitApproveRace /\ [][NextApproveRace]_vars

\* C24: two Approve calls on the same pending participant are not mutually
\* excluded: a call that read the participant as not approved always writes and
\* reports success with an approval broadcast, also when another call has
\* approved the participant since, so both calls can succeed instead of one
\* failing as already approved.
ApproveNotExcluded ==
    [][\A q \in Requests :
          (awaiting[q].pc = "read" /\ awaiting'[q].pc = "answered")
              => /\ resp'.op = "approve" /\ resp'.code = 200
                 /\ resp'.id = awaiting[q].participant
                 /\ "participant:approved" \in emitted'
                 /\ participants'[awaiting[q].participant].registrationStatus = "approved"]_vars

\* C24 witness: both calls in flight were for the same participant, both read it
\* as not approved, and both were answered with success
BothApproved ==
    /\ \A q \in Requests : awaiting[q].pc = "answered" /\ awaiting[q].code = 200
    /\ \E p \in Participants : \A q \in Requests : awaiting[q].participant = p
    /\ resp.op = "approve" /\ resp.code = 200

-----------------------------------------------------------------------------
(* Accounts: POST /api/auth/register and POST /api/auth/google-login, step   *)
(* by step at their awaits.  An email is a number; a role of "" is a body    *)
(* without role.                                                             *)

\* User.findOne({email})
UserWithEmail(us, email) == {u \in Existing(us) : us[u].email = email}

\* User.countDocuments({role: 'admin'})
AdminCount(us) == Cardinality({u \in Existing(us) : us[u].role = "admin"})

\* register up to the answer of countDocuments: the existing-user check and
\* autoApprove = (role === 'admin' || !role) && adminCount === 0
RegisterCount(q, email, role) ==
    /\ awaiting[q].pc = "idle"
    /\ IF UserWithEmail(users, email) # {}
       THEN /\ Reply("register", 0, <<email, role>>, 400, {})
            /\ UNCHANGED <<store, procs>>
       ELSE /\ awaiting' = [awaiting EXCEPT ![q] =
                   [pc |-> "counted", email |-> email, role |-> role,
                    autoApprove |-> (role \in {"admin", ""} /\ AdminCount(users) = 0)]]
            /\ UNCHANGED <<store, resp, emitted, repeated, notified, handed, creating,
                           backfill, session, judging>>

\* register from User.create on: the unique index on email refuses a second
\* account, a pending admin is announced to the admin room
RegisterCreate(q) ==
    /\ awaiting[q].pc = "counted"
    /\ awaiting' = [awaiting EXCEPT ![q] = NoRequest]
    /\ LET req == awaiting[q]
           id == FreshId(users)
           user == [exists |-> TRUE, email |-> req.email,
                    role |-> IF req.role = "" THEN "judge" ELSE req.role,
                    isApproved |-> (req.autoApprove \/ req.role = "judge")]
       IN  IF UserWithEmail(users, req.email) # {}
           THEN /\ Reply("register", 0, <<req.email, req.role>>, 400, {})
                /\ UNCHANGED store
           ELSE /\ id # 0
                /\ users' = [users EXCEPT ![id] = user]
                /\ Reply("register", id, <<req.email, req.role>>, 201,
                         IF user.role = "admin" /\ ~user.isApproved
                         THEN {"admin:request"} ELSE {})
                /\ UNCHANGED <<participants, subEvents, rounds, groups, panels,
                               evaluations, paymentSettings, counter>>
    /\ UNCHANGED <<handed, creating, backfill, session, judging>>

\* the end of google-login for the account u: 401 while it is not approved
GoogleAnswer(u, email, approved) ==
    Reply("googleLogin", u, <<email>>, IF approved THEN 200 ELSE 401, {})

\* google-login with role admin up to the answer of User.create: an account
\* found is answered at once, one not found is created with isApproved false
GoogleCreate(q, email) ==
    /\ awaiting[q].pc = "idle"
    /\ IF UserWithEmail(users, email) # {}
       THEN /\ GoogleAnswer(Min(UserWithEmail(users, email)), email,
                            users[Min(UserWithEmail(users, email))].isApproved)
            /\ UNCHANGED <<store, procs>>
       ELSE LET id == FreshId(users)
            IN  /\ id # 0
                /\ users' = [users EXCEPT ![id] =
                       [exists |-> TRUE, email |-> email, role |-> "admin",
                        isApproved |-> FALSE]]
                /\ awaiting' = [awaiting EXCEPT ![q] =
                       [pc |-> "created", email |-> email, user |-> id]]
                /\ UNCHANGED <<participants, subEvents, rounds, groups, panels,
                               evaluations, paymentSettings, counter, resp, emitted,
                               repeated, notified, handed, creating, backfill, session,
                               judging>>

\* google-login from countDocuments on: the account is approved and saved if
\* it is the only admin, announced to the admin room otherwise
GoogleCount(q) ==
    /\ awaiting[q].pc = "created"
    /\ awaiting' = [awaiting EXCEPT ![q] = NoRequest]
    /\ LET req == awaiting[q]
       IN  IF AdminCount(users) = 1
           THEN /\ users' = [users EXCEPT ![req.user].isApproved = TRUE]
                /\ GoogleAnswer(req.user, req.email, TRUE)
           ELSE /\ UNCHANGED users
                /\ Reply("googleLogin", req.user, <<req.email>>, 401, {"admin:request"})
    /\ UNCHANGED <<participants, subEvents, rounds, groups, panels, evaluations,
                   paymentSettings, counter, handed, creating, backfill, session, judging>>

\* the roles of a register body
RoleInputs == {"admin", "judge", ""}

\* a fresh installation: no user yet
InitAccounts ==
    /\ participants = [p \in Participants |-> NoDoc]
    /\ subEvents = [se \in SubEvents |-> NewSubEvent("individual")]
    /\ rounds = [r \in RoundIds |-> NoDoc]
    /\ groups = [g \in GroupIds |-> NoDoc]
    /\ panels = [pn \in PanelIds |-> NoDoc]
    /\ evaluations = [e \in EvaluationIds |-> NoDoc]
    /\ paymentSettings = NoDoc
    /\ counter = 0
    /\ users = [u \in UserIds |-> NoDoc]
    /\ resp = NoResp
    /\ emitted = {}
    /\ IdleProcs

NextAccounts ==
    \/ \E q \in Requests, email \in UserIds, role \in RoleInputs :
          RegisterCount(q, email, role)
    \/ \E q \in Requests : RegisterCreate(q)
    \/ \E q \in Requests, email \in UserIds : GoogleCreate(q, email)
    \/ \E q \in Requests : GoogleCount(q)

SpecAccounts == InitAccounts /\ [][NextAccounts]_vars

\* C25: the first admin account is auto-approved: once the register and
\* Google-login calls in flight have been answered, if an admin account exists
\* then an approved admin account exists.
FirstAdminApproved ==
    (/\ \A q \in Requests : awaiting[q].pc = "idle"
     /\ \E u \in Existing(users) : users[u].role = "admin")
        => \E u \in Existing(users) : users[u].role = "admin" /\ users[u].isApproved

-----------------------------------------------------------------------------
(* The approvedParticipants statistic of a sub-event *)

\* C26: for every sub-event, the stored approvedParticipants counter equals the
\* number of participants registered for that sub-event whose registration
\* status is approved, after any sequence of approve and reject operations.
ApprovedCounterExact ==
    \A se \in Existing(subEvents) :
        subEvents[se].approvedParticipants = ApprovedCount(participants, se)

-----------------------------------------------------------------------------
(* Capacity: sub-event se admits at most se participants; nobody has         *)
(* registered yet.                                                           *)

InitCapacity ==
    /\ participants = [p \in Participants |-> NoDoc]
    /\ subEvents = [se \in SubEvents |->
                       [NewSubEvent("individual") EXCEPT !.maxParticipants = se]]
    /\ rounds = [r \in RoundIds |-> NoDoc]
    /\ groups = [g \in GroupIds |-> NoDoc]
    /\ panels = [pn \in PanelIds |-> NoDoc]
    /\ evaluations = [e \in EvaluationIds |-> NoDoc]
    /\ paymentSettings = NoDoc
    /\ counter = 0
    /\ users = <<>>
    /\ resp = NoResp
    /\ emitted = {}
    /\ IdleProcs

NextCapacity ==
    \/ \E identity \in Participants, ses \in SUBSET SubEvents :
          SubmitRegistration(identity, ses, 100)
    \/ \E p \in Participants : Approve(p)

SpecCapacity == InitCapacity /\ [][NextCapacity]_vars

\* C27: for every sub-event with a maximum capacity set, the number of approved
\* participants registered for it never exceeds maxParticipants, after any
\* sequence of submit registration and approve operations.
CapacityRespected ==
    \A se \in Existing(subEvents) :
        subEvents[se].maxParticipants # 0
            => ApprovedCount(participants, se) <= subEvents[se].maxParticipants

\* a submission for a sub-event whose approved count has reached the capacity is refused
FullRefusesSubmit ==
    [][(resp'.op = "submit" /\ \E se \in resp'.arg[2] : IsFull(subEvents[se]))
          => resp'.code = 400]_vars

-----------------------------------------------------------------------------
(* Availability across rounds of different sub-events *)

\* approved participants registered for both sub-events, no round yet; rounds
\* are created, started and ended
InitBusy == InitRounds

NextBusy ==
    \/ \E se \in SubEvents, num \in RoundNumbers : CreateRound(se, num)
    \/ \E r \in RoundIds : StartRound(r)
    \/ \E r \in RoundIds : EndRound(r)

SpecBusy == InitBusy /\ [][NextBusy]_vars

\* C28: whenever a round is active, every participant in its participant list
\* has availability busy: no operation on another round or sub-event leaves a
\* participant of a still-active round available or qualified.
ActiveRoundKeepsBusy ==
    \A r \in Existing(rounds) :
        rounds[r].status = "active"
            => \A p \in SeqToSet(rounds[r].participants) :
                  participants[p].exists => participants[p].currentStatus = "busy"

-----------------------------------------------------------------------------
(* Assignment of groups to panels: Group.panelId and Panel.assignedGroups *)

\* POST /api/admin/groups/:id/assign-panel with body {panelId}
AssignPanel(g, pn) ==
    IF ~groups[g].exists \/ ~panels[pn].exists
    THEN /\ Reply("assignPanel", g, <<pn>>, 404, {})
         /\ UNCHANGED <<store, procs>>
    ELSE /\ groups' = [groups EXCEPT ![g].panelId = pn]
         /\ panels' = [panels EXCEPT ![pn].assignedGroups = @ \cup {g}]
         /\ Reply("assignPanel", g, <<pn>>, 200, {})
         /\ UNCHANGED <<participants, subEvents, rounds, evaluations,
                        paymentSettings, counter, users, procs>>

\* POST /api/admin/panels/:id/assign-groups with body {groupIds}; first is
\* groupIds[0], the group the round is detected from (0 for an empty array)
AssignGroups(pn, groupIds, first) ==
    IF ~panels[pn].exists
    THEN /\ Reply("assignGroups", pn, <<groupIds>>, 404, {})
         /\ UNCHANGED <<store, procs>>
    ELSE LET detectedRoundId ==
                 IF first # 0 /\ groups[first].exists THEN groups[first].roundId ELSE 0
             unassigned ==
                 [g \in GroupIds |->
                     IF /\ detectedRoundId # 0
                        /\ groups[g].exists
                        /\ groups[g].panelId = pn
                        /\ groups[g].roundId = detectedRoundId
                     THEN [groups[g] EXCEPT !.panelId = 0]
                     ELSE groups[g]]
             assigned ==
                 [g \in GroupIds |->
                     IF unassigned[g].exists /\ g \in groupIds
                     THEN [unassigned[g] EXCEPT !.panelId = pn]
                     ELSE unassigned[g]]
         IN  /\ groups' = assigned
             /\ panels' = [panels EXCEPT ![pn].assignedGroups =
                              {g \in Existing(assigned) : assigned[g].panelId = pn}]
             /\ Reply("assignGroups", pn, <<groupIds>>, 200, {"group:assigned"})
             /\ UNCHANGED <<participants, subEvents, rounds, evaluations,
                            paymentSettings, counter, users, procs>>

\* PUT /api/admin/groups/:id with body {panelId}; 0 is null
SetGroupPanel(g, panelId) ==
    IF ~groups[g].exists
    THEN /\ Reply("updateGroup", g, <<panelId>>, 404, {})
         /\ UNCHANGED <<store, procs>>
    ELSE /\ groups' = [groups EXCEPT ![g].panelId = panelId]
         /\ Reply("updateGroup", g, <<panelId>>, 200, {})
         /\ UNCHANGED <<participants, subEvents, rounds, panels, evaluations,
                        paymentSettings, counter, users, procs>>

\* DELETE /api/admin/groups/:id
DeleteGroup(g) ==
    IF ~groups[g].exists
    THEN /\ Reply("deleteGroup", g, <<>>, 404, {})
         /\ UNCHANGED <<store, procs>>
    ELSE /\ groups' = [groups EXCEPT ![g] = NoDoc]
         /\ Reply("deleteGroup", g, <<>>, 200, {})
         /\ UNCHANGED <<participants, subEvents, rounds, panels, evaluations,
                        paymentSettings, counter, users, procs>>

\* round 1 of sub-event 1 with its groups formed (group g holds participant g)
\* and both panels created; no group is assigned yet
InitAssign ==
    /\ participants = [p \in Participants |-> ApprovedParticipant(p, SubEvents)]
    /\ subEvents = [se \in SubEvents |-> NewSubEvent("group")]
    /\ rounds = [r \in RoundIds |->
                    IF r = 1 THEN NewRound(1, 1, SortedSeq(Participants)) ELSE NoDoc]
    /\ groups = [g \in GroupIds |-> NewGroup(1, 1, g, {g})]
    /\ panels = [pn \in PanelIds |-> NewPanel(1)]
    /\ evaluations = [e \in EvaluationIds |-> NoDoc]
    /\ paymentSettings = NoDoc
    /\ counter = NumParticipants
    /\ users = <<>>
    /\ resp = NoResp
    /\ emitted = {}
    /\ IdleProcs

NextAssign ==
    \/ \E g \in GroupIds, pn \in PanelIds : AssignPanel(g, pn)
    \/ \E pn \in PanelIds, groupIds \in SUBSET GroupIds :
          \E first \in (IF groupIds = {} THEN {0} ELSE groupIds) :
              AssignGroups(pn, groupIds, first)
    \/ \E g \in GroupIds, panelId \in {0} \cup PanelIds : SetGroupPanel(g, panelId)
    \/ \E g \in GroupIds : DeleteGroup(g)
    \/ \E pn \in PanelIds : DeletePanel(pn)

SpecAssign == InitAssign /\ [][NextAssign]_vars

\* C29: a group's panel reference and the panels' assigned-group lists always
\* agree: a group has panelId P exactly when the group is in panel P's
\* assignedGroups, and assignedGroups never lists a deleted group.
PanelReferencesAgree ==
    \A pn \in Existing(panels) :
        /\ \A g \in Existing(groups) :
              groups[g].panelId = pn <=> g \in panels[pn].assignedGroups
        /\ \A g \in panels[pn].assignedGroups : groups[g].exists

-----------------------------------------------------------------------------
(* Submit evaluation and the panel of the group *)

\* C30: Submit evaluation is accepted only from a judge of the panel the group
\* is assigned to: an access code belonging to panel P never creates or updates
\* an Evaluation, the evaluationStatus or the averageScore of a group that is
\* assigned to a different panel or to no panel.
EvaluateOnlyOwnPanel ==
    [][(\/ evaluations' # evaluations
        \/ \E g \in Existing(groups) :
              \/ groups'[g].evaluationStatus # groups[g].evaluationStatus
              \/ groups'[g].averageScore # groups[g].averageScore)
       => /\ resp'.op = "evaluate"
          /\ groups[resp'.id].exists
          /\ \E pn \in Existing(panels) :
                /\ groups[resp'.id].panelId = pn
                /\ \E j \in DOMAIN panels[pn].judges :
                      panels[pn].judges[j].accessCode = resp'.arg[1]]_vars

=============================================================================
